---- MODULE Spec2Model ----
(***************************************************************************)
(* Build orchestration of ml-dev-env: scripts/image_builder.py and the     *)
(* pipeline of scripts/deployment_wizard.py (_build_custom_image).         *)
(* Each component has its own specification: Spec (a monitoring call),     *)
(* ClientSpec, GeneratorSpec, AnalyzerSpec, HandlerSpec and WizardSpec.    *)
(*                                                                         *)
(* Text is modelled as a sequence of chunks.  A chunk is either a piece of *)
(* whitespace (WS, NL) or a whitespace-free fragment of a word; a Python   *)
(* string is the concatenation of its chunks, so substring tests, strip(), *)
(* split("\n") and the regular expressions are computed on chunk           *)
(* sequences the way the code computes them on characters.                 *)
(* An optional value (Python's None or a value) is <<>> or <<value>>.      *)
(***************************************************************************)
EXTENDS Integers, Sequences, FiniteSets, TLC

\* ------------------------------------------------------------------ bounds

\* the timeout argument of monitor_with_progress, in seconds
TimeoutSecs == 4

\* the snapshot log text has at most this many lines
MaxSnapLines == 2

\* the clock saturates one second past the timeout: every later instant is
\* indistinguishable to the loop (elapsed > timeout either way)
MaxTime == TimeoutSecs + 1

\* ------------------------------------------------------------------ values

None == <<>>

Some(x) == <<x>>

\* Python's None where the value is an atom (a phase, a step counter)
NoneAtom == "None"

WS == " "

NL == "\n"

IsSpace(c) == c \in {WS, NL, "\t"}

Min(a, b) == IF a < b THEN a ELSE b

SetMax(S) == CHOOSE x \in S : \A y \in S : y <= x

SetMin(S) == CHOOSE x \in S : \A y \in S : x <= y

\* str.lower() on one chunk
LowerChunk(c) ==
    CASE c = "ERROR:" -> "error:"
      [] c = "Error:" -> "error:"
      [] c = "Failed" -> "failed"
      [] c = "Could" -> "could"
      [] c = "Timeout" -> "timeout"
      [] c = "Connection" -> "connection"
      [] c = "No" -> "no"
      [] OTHER -> c

\* str.lower()
Lower(s) == [i \in 1..Len(s) |-> LowerChunk(s[i])]

\* pat in s
Contains(s, pat) ==
    \E i \in 1..(Len(s) - Len(pat) + 1) : SubSeq(s, i, i + Len(pat) - 1) = pat

RECURSIVE LStrip(_)
LStrip(s) == IF s # <<>> /\ IsSpace(Head(s)) THEN LStrip(Tail(s)) ELSE s

RECURSIVE RStrip(_)
\* str.rstrip()
RStrip(s) ==
    IF s # <<>> /\ IsSpace(s[Len(s)]) THEN RStrip(SubSeq(s, 1, Len(s) - 1)) ELSE s

\* str.strip()
Strip(s) == LStrip(RStrip(s))

RECURSIVE SplitAcc(_, _, _)
SplitAcc(s, i, cur) ==
    IF i > Len(s) THEN <<cur>>
    ELSE IF s[i] = NL THEN <<cur>> \o SplitAcc(s, i + 1, <<>>)
    ELSE SplitAcc(s, i + 1, Append(cur, s[i]))

\* s.split("\n"): always at least one line
SplitLines(s) == SplitAcc(s, 1, <<>>)

RECURSIVE JoinLines(_)
\* "\n".join(lines)
JoinLines(lines) ==
    IF lines = <<>> THEN <<>>
    ELSE IF Len(lines) = 1 THEN lines[1]
    ELSE lines[1] \o <<NL>> \o JoinLines(Tail(lines))

\* ------------------------------------------------------------- BuildResult

BuildResult(success, image_ref, phase_, logs_, error) ==
    [success |-> success, image_ref |-> image_ref, phase |-> phase_,
     logs |-> logs_, error |-> error]

TerminalPhases == {"Complete", "Failed", "Error", "Cancelled"}

ServicePhases == {"New", "Pending", "Running"} \cup TerminalPhases

\* ----------------------------------------------- BuildMonitor: pure helpers

\* mutant: a query that exits non-zero is reported as a failed build
GetPhaseFailureIsFailed(returncode, stdout) ==
    IF returncode # 0 THEN "Failed"
    ELSE IF stdout = "" THEN "Unknown" ELSE stdout

\* BuildMonitor.get_phase: the phase printed by the service, "Unknown" when
\* the query exits non-zero or prints nothing
get_phase(returncode, stdout) ==
    IF returncode # 0 THEN "Unknown"
    ELSE IF stdout = "" THEN "Unknown" ELSE stdout

\* BuildMonitor.get_logs: the snapshot text, "" when the fetch exits non-zero
get_logs(returncode, stdout) == IF returncode = 0 THEN stdout ELSE <<>>

RegistryHost == "image-registry.openshift-image-registry.svc:5000/"

DigestMark == "@sha256:"

\* "Successfully pushed image-registry.openshift-image-registry.svc:5000/"
PushPrefix == <<"Successfully", WS, "pushed", WS, RegistryHost>>

RECURSIVE RunEnd(_, _)
\* the last index of the run of non-space chunks that starts at r (r - 1 when
\* s[r] is a space or past the end): what a greedy \S+ consumes
RunEnd(s, r) ==
    IF r > Len(s) \/ IsSpace(s[r]) THEN r - 1 ELSE RunEnd(s, r + 1)

\* the regular expression of _extract_image_from_logs matched at index i:
\* the prefix, then (\S+)@sha256:(\S+) with both groups greedy
PushMatchAt(s, i) ==
    LET r == i + Len(PushPrefix)
        e == RunEnd(s, r)
        marks == {m \in (r + 1)..(e - 1) : s[m] = DigestMark}
    IN  IF i + Len(PushPrefix) - 1 <= Len(s)
           /\ SubSeq(s, i, i + Len(PushPrefix) - 1) = PushPrefix
           /\ marks # {}
        THEN LET m == SetMax(marks)
             IN  Some(<<RegistryHost>> \o SubSeq(s, r, m - 1) \o <<DigestMark>>
                      \o SubSeq(s, m + 1, e))
        ELSE None

RECURSIVE SearchPush(_, _)
\* re.search: the leftmost match
SearchPush(s, i) ==
    IF i > Len(s) THEN None
    ELSE IF PushMatchAt(s, i) # None THEN PushMatchAt(s, i)
    ELSE SearchPush(s, i + 1)

_extract_image_from_logs(logs_) == SearchPush(logs_, 1)

FailurePatterns ==
    { <<"could", WS, "not", WS, "find">>,
      <<"no", WS, "matching", WS, "distribution">>,
      <<"failed", WS, "to">>,
      <<"connection", WS, "refused">>,
      <<"timeout">> }

HasErrorMarker(line) ==
    Contains(line, <<"ERROR:">>) \/ Contains(Lower(line), <<"error:">>)

HasFailurePattern(line) == \E pat \in FailurePatterns : Contains(Lower(line), pat)

RECURSIVE LastMarkerLine(_, _)
\* for line in reversed(lines): the first line with an error marker (0: none)
LastMarkerLine(lines, i) ==
    IF i = 0 THEN 0
    ELSE IF HasErrorMarker(lines[i]) THEN i ELSE LastMarkerLine(lines, i - 1)

RECURSIVE LastPatternLine(_, _)
LastPatternLine(lines, i) ==
    IF i = 0 THEN 0
    ELSE IF HasFailurePattern(lines[i]) THEN i ELSE LastPatternLine(lines, i - 1)

GenericError ==
    <<"Build", WS, "failed", WS, "(see", WS, "logs", WS, "for", WS, "details)">>

\* mutant: the failure phrases are looked for before the error markers
ExtractErrorPhrasesFirst(logs_) ==
    LET lines == SplitLines(logs_)
        k == LastMarkerLine(lines, Len(lines))
        j == LastPatternLine(lines, Len(lines))
    IN  IF j # 0 THEN Strip(lines[j])
        ELSE IF k # 0 THEN Strip(lines[k])
        ELSE GenericError

\* mutant: without the generic fallback, the last line stands in
ExtractErrorNoFallback(logs_) ==
    LET lines == SplitLines(logs_)
        k == LastMarkerLine(lines, Len(lines))
        j == LastPatternLine(lines, Len(lines))
    IN  IF k # 0 THEN Strip(lines[k])
        ELSE IF j # 0 THEN Strip(lines[j])
        ELSE Strip(lines[Len(lines)])

_extract_error_from_logs(logs_) ==
    LET lines == SplitLines(logs_)
        k == LastMarkerLine(lines, Len(lines))
        j == LastPatternLine(lines, Len(lines))
    IN  IF k # 0 THEN Strip(lines[k])
        ELSE IF j # 0 THEN Strip(lines[j])
        ELSE GenericError

\* "Step (\d+)/(\d+)": the chunks that are digits/digits
StepCounters == {"1/2", "2/2"}

StepMatches(line) ==
    {i \in 1..(Len(line) - 2) :
        line[i] = "Step" /\ line[i + 1] = WS /\ line[i + 2] \in StepCounters}

\* ------------------------------------------------ the build service's data

\* lines the build log may hold
SnapshotLines ==
    { <<>>,
      <<WS>>,
      <<WS, "ERROR:", WS, "boom", WS>>,
      <<"Failed", WS, "to", WS, "fetch">>,
      <<"Successfully", WS, "pushed", WS, RegistryHost, "ns/img", DigestMark, "abc123">>,
      <<"Successfully", WS, "pushed", WS, "quay.io/", "ns/img", DigestMark, "abc123">> }

\* what `oc logs build/<name>` may print: up to MaxSnapLines lines
SnapshotTexts ==
    {JoinLines(ls) : ls \in UNION {[1..n -> SnapshotLines] : n \in 1..MaxSnapLines}}

\* what one readline() on `oc logs -f` may deliver
StreamLines == { <<"Step", WS, "2/2", WS, ":", WS, "Push", WS, "successful", WS, NL>> }

\* bytes that do not decode: readline() raises
Undecodable == <<"\\xff">>

\* seconds a subprocess.run call may take
IODelays == {0, 1}

\* seconds a readline() may take: it blocks until a line or end of file
ReadDelays == {0, 1, MaxTime}

\* seconds time.sleep(2) may take
SleepDelays == {2, 3}

\* --------------------------------------------------------------- the state

VARIABLES
    now,            \* the clock (time.time()), saturating at MaxTime
    svcPhase,       \* the build's phase at the build service
    procState,      \* the log-tail process: "none", "running", "exited"
    pending,        \* the line waiting in the log-tail pipe, if any
    pc,             \* position in monitor_with_progress
    start_time, elapsed, phase, last_phase, last_log_line, current_step, logs,
    current_phase,  \* BuildMonitor.current_phase
    result,         \* the value monitor_with_progress returned, if it has
    termCalls,      \* calls of log_proc.terminate()
    getLogsCalls,   \* calls of get_logs()
    trace,          \* the calls of the current loop iteration, in order
    interruptedAt,  \* the statement a KeyboardInterrupt abandoned, or "none"
    svcTerminalInTime \* the build reached its terminal phase before the timeout had elapsed

envVars == <<now, svcPhase, procState, pending>>

localVars == <<start_time, elapsed, phase, last_phase, last_log_line, current_step, logs>>

histVars == <<termCalls, getLogsCalls, trace, interruptedAt, svcTerminalInTime>>

\* the state of one BuildMonitor.monitor_with_progress call and its environment
monitorVars == <<envVars, pc, localVars, current_phase, result, histVars>>

VARIABLES
    eh_pc,          \* position in BuildErrorHandler: analyze_failure, handle_failure
    eh_logs,        \* analyze_failure's argument `logs`
    eh_phase,       \* analyze_failure's argument `phase`
    eh_error,       \* the ErrorAnalysis analyze_failure returned, if it has
    eh_prompts,     \* how many times handle_failure has read a choice
    eh_input,       \* what the last input() of handle_failure delivered
    eh_action       \* the action handle_failure returned, if it has

handlerVars == <<eh_pc, eh_logs, eh_phase, eh_error, eh_prompts, eh_input, eh_action>>

VARIABLES
    cl_pc,          \* position in the ImageBuilder / BuildMonitor client call
    cl_op,          \* the client operation that is running or has run
    cl_args,        \* its arguments
    cl_rc,          \* the exit code of its `oc` command
    cl_stdout,      \* what the `oc` command printed
    cl_temp,        \* apply_buildconfig's temporary file exists
    cl_out          \* how the call ended: a returned value or a raised exception

clientVars == <<cl_pc, cl_op, cl_args, cl_rc, cl_stdout, cl_temp, cl_out>>

VARIABLES
    gen_pc,         \* position in ImageBuilder.generate_buildconfig
    gen_args,       \* the template's dockerfile, base_image, packages, requirements_file
    gen_out         \* the dockerfile as rewritten so far

generatorVars == <<gen_pc, gen_args, gen_out>>

VARIABLES
    wz_pc,          \* position in DeploymentWizard._build_custom_image
    wz_run,         \* which run of _build_custom_image this is (retry re-enters it)
    wz_calls,       \* the calls made and the actions dispatched so far, in order
    wz_result,      \* the BuildResult the monitor returned in this run, if it has
    wz_error,       \* the ErrorAnalysis of this run, if any
    wz_action,      \* the action handle_failure returned in this run, if it has
    wz_raised       \* the call of this run that raised an Exception, if one has

wizardVars == <<wz_pc, wz_run, wz_calls, wz_result, wz_error, wz_action, wz_raised>>

vars == <<monitorVars, handlerVars, clientVars, generatorVars, wizardVars>>

\* the error handler is not running
HandlerIdle ==
    /\ eh_pc = "idle"
    /\ eh_logs = None
    /\ eh_phase = NoneAtom
    /\ eh_error = None
    /\ eh_prompts = 0
    /\ eh_input = None
    /\ eh_action = NoneAtom

\* no client call is running
ClientIdle ==
    /\ cl_pc = "idle"
    /\ cl_op = NoneAtom
    /\ cl_args = None
    /\ cl_rc = 0
    /\ cl_stdout = None
    /\ cl_temp = FALSE
    /\ cl_out = None

\* the generator is not running
GeneratorIdle ==
    /\ gen_pc = "idle"
    /\ gen_args = None
    /\ gen_out = None

\* the wizard is not in _build_custom_image
WizardIdle ==
    /\ wz_pc = "idle"
    /\ wz_run = 0
    /\ wz_calls = <<>>
    /\ wz_result = None
    /\ wz_error = None
    /\ wz_action = NoneAtom
    /\ wz_raised = NoneAtom

\* the statements inside `try:` (the monitoring loop)
TryRegion ==
    {"check_timeout", "timeout_terminate", "timeout_return", "get_phase",
     "terminal_terminate", "get_logs", "build_result", "poll", "readline", "sleep"}

Exits == {"returned", "raised"}

interrupted == interruptedAt # "none"

Advance(d) == Min(now + d, MaxTime)

\* no monitoring call has started
MonitorInit ==
    /\ now = 0
    /\ svcPhase = "New"
    /\ procState = "none"
    /\ pending = None
    /\ pc = "idle"
    /\ start_time = 0
    /\ elapsed = 0
    /\ phase = NoneAtom
    /\ last_phase = NoneAtom
    /\ last_log_line = None
    /\ current_step = NoneAtom
    /\ logs = None
    /\ current_phase = NoneAtom
    /\ result = None
    /\ termCalls = 0
    /\ getLogsCalls = 0
    /\ trace = <<>>
    /\ interruptedAt = "none"
    /\ svcTerminalInTime = FALSE

\* nothing has been called yet
Init == MonitorInit /\ HandlerIdle /\ ClientIdle /\ GeneratorIdle /\ WizardIdle

\* what a step of the monitoring session leaves alone
outsideMonitor == <<handlerVars, clientVars, generatorVars, wizardVars>>

\* ------------------------------------------------------- the build service

Active == pc \notin ({"idle"} \cup Exits)

PhaseRank(p) ==
    CASE p = "New" -> 0 [] p = "Pending" -> 1 [] p = "Running" -> 2 [] OTHER -> 3

\* the build moves forward through its phases; a terminal phase is final
SvcAdvance ==
    /\ Active
    /\ svcPhase \notin TerminalPhases
    /\ \E p \in ServicePhases : PhaseRank(p) > PhaseRank(svcPhase) /\ svcPhase' = p
    /\ svcTerminalInTime' = (svcPhase' \in TerminalPhases /\ now - start_time < TimeoutSecs)
    /\ UNCHANGED <<now, procState, pending, pc, localVars, current_phase, result, termCalls,
                   getLogsCalls, trace, interruptedAt>>
    /\ UNCHANGED outsideMonitor

\* the log-tail process writes a line into its pipe
LogEmit ==
    /\ Active
    /\ procState = "running"
    /\ pending = None
    /\ \E l \in StreamLines \cup {Undecodable} : pending' = Some(l)
    /\ UNCHANGED <<now, svcPhase, procState, pc, localVars, current_phase, result, histVars>>
    /\ UNCHANGED outsideMonitor

\* the log-tail process exits: the build ended, or it was signalled
ProcExit ==
    /\ Active
    /\ procState = "running"
    /\ procState' = "exited"
    /\ UNCHANGED <<now, svcPhase, pending, pc, localVars, current_phase, result, histVars>>
    /\ UNCHANGED outsideMonitor

\* ------------------------------------------ BuildMonitor.monitor_with_progress

\* mutant: the comparison is >= instead of >
TimedOutAtLimit(e) == e >= TimeoutSecs

TimedOut(e) == e > TimeoutSecs

\* mutant: the timeout result reports the build as still running
TimeoutResultKeepsPhase ==
    BuildResult(FALSE, None, "Running", None,
                Some(<<"Build", WS, "timed", WS, "out", WS, "after", WS,
                       ToString(TimeoutSecs), WS, "seconds">>))

TimeoutResult ==
    BuildResult(FALSE, None, "Timeout", None,
                Some(<<"Build", WS, "timed", WS, "out", WS, "after", WS,
                       ToString(TimeoutSecs), WS, "seconds">>))

\* mutant: success is reported only when a reference was extracted
CompleteResultNeedsImage(image_ref, logs_) ==
    BuildResult(image_ref # None, image_ref, "Complete", Some(logs_), None)

CompleteResult(image_ref, logs_) ==
    BuildResult(TRUE, image_ref, "Complete", Some(logs_), None)

FailedResult(phase_, error_msg, logs_) ==
    BuildResult(FALSE, None, phase_, Some(logs_), Some(error_msg))

CancelledResult ==
    BuildResult(FALSE, None, "Cancelled", None, Some(<<"Cancelled", WS, "by", WS, "user">>))

\* start_time = time.time(); log_proc = subprocess.Popen(...); enter try
Start ==
    /\ pc = "idle"
    /\ start_time' = now
    /\ last_phase' = NoneAtom
    /\ last_log_line' = None
    /\ current_step' = NoneAtom
    /\ procState' = "running"
    /\ pending' = None
    /\ pc' = "check_timeout"
    /\ UNCHANGED <<now, svcPhase, elapsed, phase, logs, current_phase, result, histVars>>
    /\ UNCHANGED outsideMonitor

\* elapsed = time.time() - start_time; if elapsed > timeout
CheckTimeout ==
    /\ pc = "check_timeout"
    /\ elapsed' = now - start_time
    /\ pc' = IF TimedOut(elapsed') THEN "timeout_terminate" ELSE "get_phase"
    /\ trace' = <<>>
    /\ UNCHANGED <<envVars, start_time, phase, last_phase, last_log_line, current_step,
                   logs, current_phase, result, termCalls, getLogsCalls, interruptedAt>>
    /\ UNCHANGED svcTerminalInTime
    /\ UNCHANGED outsideMonitor

\* log_proc.terminate() of the timeout branch
TimeoutTerminate ==
    /\ pc = "timeout_terminate"
    /\ termCalls' = termCalls + 1
    /\ trace' = Append(trace, "terminate")
    /\ pc' = "timeout_return"
    /\ UNCHANGED <<envVars, localVars, current_phase, result, getLogsCalls, interruptedAt>>
    /\ UNCHANGED svcTerminalInTime
    /\ UNCHANGED outsideMonitor

\* return BuildResult(success=False, phase="Timeout", ...)
TimeoutReturn ==
    /\ pc = "timeout_return"
    /\ result' = Some(TimeoutResult)
    /\ pc' = "returned"
    /\ UNCHANGED <<envVars, localVars, current_phase, histVars>>
    /\ UNCHANGED outsideMonitor

\* phase = self.get_phase(); if phase != last_phase: ...; if phase in [...]
GetPhase ==
    /\ pc = "get_phase"
    /\ \E rc \in {0, 1}, out \in {svcPhase, ""}, d \in IODelays :
         /\ rc # 0 => out = ""
         /\ phase' = get_phase(rc, out)
         /\ now' = Advance(d)
    /\ IF phase' # last_phase
         THEN last_phase' = phase' /\ current_phase' = phase'
         ELSE UNCHANGED <<last_phase, current_phase>>
    /\ pc' = IF phase' \in TerminalPhases THEN "terminal_terminate" ELSE "poll"
    /\ trace' = Append(trace, "get_phase")
    /\ UNCHANGED <<svcPhase, procState, pending, start_time, elapsed, last_log_line,
                   current_step, logs, result, termCalls, getLogsCalls, interruptedAt>>
    /\ UNCHANGED svcTerminalInTime
    /\ UNCHANGED outsideMonitor

\* subprocess.run inside get_phase raises (OSError, UnicodeDecodeError): not a
\* KeyboardInterrupt, so no handler of monitor_with_progress catches it
GetPhaseRaises ==
    /\ pc = "get_phase"
    /\ pc' = "raised"
    /\ trace' = Append(trace, "get_phase")
    /\ UNCHANGED <<envVars, localVars, current_phase, result, termCalls, getLogsCalls,
                   interruptedAt>>
    /\ UNCHANGED svcTerminalInTime
    /\ UNCHANGED outsideMonitor

\* mutant: the terminal-phase branch fetches the logs without terminating
TerminalTerminateSkipped ==
    /\ pc = "terminal_terminate"
    /\ pc' = "get_logs"
    /\ UNCHANGED <<envVars, localVars, current_phase, result, histVars>>
    /\ UNCHANGED outsideMonitor

\* log_proc.terminate() of the terminal-phase branch
TerminalTerminate ==
    /\ pc = "terminal_terminate"
    /\ termCalls' = termCalls + 1
    /\ trace' = Append(trace, "terminate")
    /\ pc' = "get_logs"
    /\ UNCHANGED <<envVars, localVars, current_phase, result, getLogsCalls, interruptedAt>>
    /\ UNCHANGED svcTerminalInTime
    /\ UNCHANGED outsideMonitor

\* logs = self.get_logs()
GetLogs ==
    /\ pc = "get_logs"
    /\ \E rc \in {0, 1}, out \in SnapshotTexts, d \in IODelays :
         /\ rc # 0 => out = <<>>
         /\ logs' = Some(get_logs(rc, out))
         /\ now' = Advance(d)
    /\ getLogsCalls' = getLogsCalls + 1
    /\ trace' = Append(trace, "get_logs")
    /\ pc' = "build_result"
    /\ UNCHANGED <<svcPhase, procState, pending, start_time, elapsed, phase, last_phase,
                   last_log_line, current_step, current_phase, result, termCalls,
                   interruptedAt>>
    /\ UNCHANGED svcTerminalInTime
    /\ UNCHANGED outsideMonitor

\* subprocess.run inside get_logs raises
GetLogsRaises ==
    /\ pc = "get_logs"
    /\ pc' = "raised"
    /\ getLogsCalls' = getLogsCalls + 1
    /\ trace' = Append(trace, "get_logs")
    /\ UNCHANGED <<envVars, localVars, current_phase, result, termCalls, interruptedAt>>
    /\ UNCHANGED svcTerminalInTime
    /\ UNCHANGED outsideMonitor

\* the result of the terminal-phase branch
TerminalResult(phase_, logs_) ==
    IF phase_ = "Complete"
    THEN CompleteResult(_extract_image_from_logs(logs_), logs_)
    ELSE FailedResult(phase_, _extract_error_from_logs(logs_), logs_)

\* if phase == "Complete": return BuildResult(...) else: return BuildResult(...)
ReturnTerminal ==
    /\ pc = "build_result"
    /\ result' = Some(TerminalResult(phase, logs[1]))
    /\ pc' = "returned"
    /\ UNCHANGED <<envVars, localVars, current_phase, histVars>>
    /\ UNCHANGED outsideMonitor

\* if log_proc.poll() is None
Poll ==
    /\ pc = "poll"
    /\ pc' = IF procState = "running" THEN "readline" ELSE "sleep"
    /\ UNCHANGED <<envVars, localVars, current_phase, result, histVars>>
    /\ UNCHANGED outsideMonitor

\* mutant: end of file on the log stream ends the call as a failure
ReadLineEofEndsCall ==
    /\ pc = "readline"
    /\ pending # None \/ procState = "exited"
    /\ IF pending = None
         THEN /\ result' = Some(BuildResult(FALSE, None, "Failed", Some(<<>>),
                                            Some(GenericError)))
              /\ pc' = "returned"
         ELSE result' = result /\ pc' = "sleep"
    /\ pending' = None
    /\ trace' = Append(trace, "readline")
    /\ UNCHANGED <<now, svcPhase, procState, localVars, current_phase, termCalls,
                   getLogsCalls, interruptedAt>>
    /\ UNCHANGED svcTerminalInTime
    /\ UNCHANGED outsideMonitor

\* line = log_proc.stdout.readline() and the display bookkeeping; the call
\* returns when a line is in the pipe or the pipe is at end of file, and any
\* Exception it raises is swallowed
ReadLine ==
    /\ pc = "readline"
    /\ pending # None \/ procState = "exited"
    /\ \E d \in ReadDelays : now' = Advance(d)
    /\ LET raw == IF pending = None THEN <<>> ELSE pending[1]
       IN  IF raw = Undecodable \/ raw = <<>>
           THEN UNCHANGED <<last_log_line, current_step>>
           ELSE LET line == RStrip(raw)
                IN  IF Some(line) # last_log_line
                    THEN /\ current_step' =
                              IF StepMatches(line) # {}
                              THEN line[SetMin(StepMatches(line)) + 2]
                              ELSE current_step
                         /\ last_log_line' = Some(line)
                    ELSE UNCHANGED <<last_log_line, current_step>>
    /\ pending' = None
    /\ trace' = Append(trace, "readline")
    /\ pc' = "sleep"
    /\ UNCHANGED <<svcPhase, procState, start_time, elapsed, phase, last_phase, logs,
                   current_phase, result, termCalls, getLogsCalls, interruptedAt>>
    /\ UNCHANGED svcTerminalInTime
    /\ UNCHANGED outsideMonitor

\* time.sleep(2)
Sleep ==
    /\ pc = "sleep"
    /\ \E d \in SleepDelays : now' = Advance(d)
    /\ pc' = "check_timeout"
    /\ UNCHANGED <<svcPhase, procState, pending, localVars, current_phase, result, histVars>>
    /\ UNCHANGED outsideMonitor

\* mutant: the sleep is outside the try block, so an interrupt during it escapes
InterruptEscapesSleep ==
    /\ pc \in TryRegion
    /\ interruptedAt = "none"
    /\ interruptedAt' = pc
    /\ pc' = IF pc = "sleep" THEN "raised" ELSE "handler"
    /\ UNCHANGED <<envVars, localVars, current_phase, result, termCalls, getLogsCalls,
                   trace>>
    /\ UNCHANGED svcTerminalInTime
    /\ UNCHANGED outsideMonitor

\* the operator presses Ctrl-C while a statement of the try block runs: the
\* statement is abandoned and control goes to `except KeyboardInterrupt`
Interrupt ==
    /\ pc \in TryRegion
    /\ interruptedAt = "none"
    /\ interruptedAt' = pc
    /\ pc' = "handler"
    /\ UNCHANGED <<envVars, localVars, current_phase, result, termCalls, getLogsCalls,
                   trace>>
    /\ UNCHANGED svcTerminalInTime
    /\ UNCHANGED outsideMonitor

\* except KeyboardInterrupt: log_proc.terminate()
HandlerTerminate ==
    /\ pc = "handler"
    /\ termCalls' = termCalls + 1
    /\ trace' = Append(trace, "terminate")
    /\ pc' = "handler_return"
    /\ UNCHANGED <<envVars, localVars, current_phase, result, getLogsCalls, interruptedAt>>
    /\ UNCHANGED svcTerminalInTime
    /\ UNCHANGED outsideMonitor

\* return BuildResult(success=False, phase="Cancelled", error="Cancelled by user")
HandlerReturn ==
    /\ pc = "handler_return"
    /\ result' = Some(CancelledResult)
    /\ pc' = "returned"
    /\ UNCHANGED <<envVars, localVars, current_phase, histVars>>
    /\ UNCHANGED outsideMonitor

\* the steps of the monitoring call itself
MonitorStep ==
    \/ Start
    \/ CheckTimeout
    \/ TimeoutTerminate
    \/ TimeoutReturn
    \/ GetPhase
    \/ TerminalTerminate
    \/ GetLogs
    \/ ReturnTerminal
    \/ Poll
    \/ ReadLine
    \/ Sleep
    \/ HandlerTerminate
    \/ HandlerReturn

Next ==
    \/ MonitorStep
    \/ GetPhaseRaises
    \/ GetLogsRaises
    \/ Interrupt
    \/ SvcAdvance
    \/ LogEmit
    \/ ProcExit

Spec == Init /\ [][Next]_vars

\* the interpreter keeps running the call: a step that can be taken is taken
FairSpec == Spec /\ WF_vars(MonitorStep)

\* ------------------------------------------- _extract_error_from_logs alone

\* lines a failed build's log may hold
ErrorLogLines ==
    { <<>>,
      <<"Step", WS, "1/2">>,
      <<WS, "ERROR:", WS, "boom", WS>>,
      <<"Error:", WS, "oops">>,
      <<"Failed", WS, "to", WS, "fetch">>,
      <<"Connection", WS, "refused">> }

\* the log of a failed build has at most this many lines
MaxErrorLines == 3

ErrorLogTexts ==
    {JoinLines(ls) : ls \in UNION {[1..n -> ErrorLogLines] : n \in 1..MaxErrorLines}}

\* the terminal branch has fetched the logs of a build that did not complete
\* and is about to build its result
ErrorLineInit ==
    /\ pc = "build_result"
    /\ phase \in TerminalPhases \ {"Complete"}
    /\ logs \in {Some(t) : t \in ErrorLogTexts}
    /\ svcPhase = phase /\ last_phase = phase /\ current_phase = phase
    /\ now = 0 /\ start_time = 0 /\ elapsed = 0
    /\ procState = "exited" /\ pending = None
    /\ last_log_line = None /\ current_step = NoneAtom
    /\ result = None
    /\ termCalls = 1 /\ getLogsCalls = 1
    /\ trace = <<"get_phase", "terminate", "get_logs">>
    /\ interruptedAt = "none"
    /\ svcTerminalInTime = TRUE
    /\ HandlerIdle /\ ClientIdle /\ GeneratorIdle /\ WizardIdle

\* error=self._extract_error_from_logs(logs) applied to a log text
ErrorLineSpec == ErrorLineInit /\ [][ReturnTerminal]_vars

\* ======================================================= the client calls

\* how a call ends
Returned(v) == [kind |-> "returned", value |-> v]

Raised(exc) == [kind |-> "raised", value |-> <<exc>>]

\* names of build definitions and image streams
Names == { <<"b1">>, <<"ml-dev-custom">> }

\* a build definition as apply_buildconfig reads it back: metadata.name, if any
Definitions == {[name |-> n] : n \in {None} \cup {Some(m) : m \in Names}}

BuildConfigPrefix == "buildconfig.build.openshift.io/"

BuildPrefix == "build.build.openshift.io/"

\* what `oc apply` and `oc start-build` may print
SubmitOutputs ==
    { <<>>,
      <<"created", NL>>,
      <<BuildConfigPrefix, "b1", WS, "created", NL>>,
      <<"Warning:", WS, BuildConfigPrefix, NL, BuildConfigPrefix, "b2", "-x", WS, "configured">>,
      <<BuildPrefix, "b1", "-7", WS, "started", NL>>,
      <<BuildPrefix, WS, "started">> }

RECURSIVE SearchName(_, _, _)
\* re.search(prefix + r"(\S+)", s) from chunk i on: group(1) of the leftmost match
SearchName(s, prefix, i) ==
    IF i > Len(s) THEN None
    ELSE IF s[i] = prefix /\ RunEnd(s, i + 1) >= i + 1
         THEN Some(SubSeq(s, i + 1, RunEnd(s, i + 1)))
         ELSE SearchName(s, prefix, i + 1)

\* mutant: a zero exit whose output lacks the pattern is an error
ApplyBuildconfigNeedsPattern(yaml_content, returncode, stdout) ==
    IF returncode # 0 THEN Raised("CalledProcessError")
    ELSE LET match == SearchName(stdout, BuildConfigPrefix, 1)
         IN  IF match # None THEN Returned(match[1]) ELSE Raised("ValueError")

\* ImageBuilder.apply_buildconfig, from subprocess.run on: check=True raises on
\* a non-zero exit; the name is read from the output, else from the definition
apply_buildconfig(yaml_content, returncode, stdout) ==
    IF returncode # 0 THEN Raised("CalledProcessError")
    ELSE LET match == SearchName(stdout, BuildConfigPrefix, 1)
         IN  IF match # None THEN Returned(match[1])
             ELSE IF yaml_content.name = None THEN Raised("KeyError")
             ELSE Returned(yaml_content.name[1])

\* ImageBuilder.start_build
start_build(buildconfig_name, returncode, stdout) ==
    IF returncode # 0 THEN Raised("CalledProcessError")
    ELSE LET match == SearchName(stdout, BuildPrefix, 1)
         IN  IF match # None THEN Returned(match[1])
             ELSE Returned(buildconfig_name \o <<"-1">>)

Tags == {"latest", "t1"}

\* dockerImageReference values
ImageRefs == {"reg/ns/img@sha256:aaa", "reg/ns/img@sha256:bbb"}

\* an image stream lists at most this many tag entries
MaxTagEntries == 2

\* a tag entry holds at most this many items
MaxTagItems == 2

\* the entries of status.tags: a tag and the images pushed to it, newest first
TagEntries ==
    {[tag |-> t, items |-> it] :
        t \in Tags, it \in UNION {[1..n -> ImageRefs] : n \in 0..MaxTagItems}}

\* what `oc get imagestream -o yaml` may print, as yaml.safe_load reads it:
\* status.tags (an absent status or tags key reads as the empty list)
ImageStreams == UNION {[1..n -> TagEntries] : n \in 0..MaxTagEntries}

RECURSIVE FindImage(_, _, _)
\* the loop of get_image_reference over status.tags, from entry i on
FindImage(tags, tag, i) ==
    IF i > Len(tags) THEN Raised("ValueError")
    ELSE IF tags[i].tag = tag /\ tags[i].items # <<>>
         THEN Returned(<<tags[i].items[1]>>)
         ELSE FindImage(tags, tag, i + 1)

\* mutant: the last item of the entry is returned
GetImageReferenceLastItem(tag, returncode, stdout) ==
    IF returncode # 0 THEN Raised("CalledProcessError")
    ELSE LET found == {i \in 1..Len(stdout) : stdout[i].tag = tag /\ stdout[i].items # <<>>}
         IN  IF found = {} THEN Raised("ValueError")
             ELSE LET it == stdout[SetMin(found)].items IN Returned(<<it[Len(it)]>>)

\* ImageBuilder.get_image_reference
get_image_reference(tag, returncode, stdout) ==
    IF returncode # 0 THEN Raised("CalledProcessError") ELSE FindImage(stdout, tag, 1)

\* with tempfile.NamedTemporaryFile(..., delete=False) as f: f.write(yaml_content)
\* the file is created and written, or the write raises (OSError: the volume
\* is full) and the error leaves the function before `try:` is entered
ApplyWriteTemp ==
    /\ cl_pc = "idle"
    /\ \E d \in Definitions : cl_args' = Some(d)
    /\ cl_op' = "apply_buildconfig"
    /\ cl_temp' = TRUE
    /\ \/ cl_pc' = "apply_run" /\ UNCHANGED cl_out
       \/ cl_pc' = "write_raised" /\ cl_out' = Some(Raised("OSError"))
    /\ UNCHANGED <<cl_rc, cl_stdout, monitorVars, handlerVars, generatorVars,
                   wizardVars>>

\* try: subprocess.run(["oc", "apply", ...], check=True) and the name lookup
ApplyRun ==
    /\ cl_pc = "apply_run"
    /\ \E rc \in {0, 1}, out \in SubmitOutputs :
         /\ cl_rc' = rc
         /\ cl_stdout' = Some(out)
         /\ cl_out' = Some(apply_buildconfig(cl_args[1], rc, out))
    /\ cl_pc' = "apply_finally"
    /\ UNCHANGED <<cl_op, cl_args, cl_temp, monitorVars, handlerVars, generatorVars,
                   wizardVars>>

\* mutant: the file is removed only when a name was returned
ApplyFinallyOnReturnOnly ==
    /\ cl_pc = "apply_finally"
    /\ cl_temp' = (cl_out[1].kind # "returned")
    /\ cl_pc' = "done"
    /\ UNCHANGED <<cl_op, cl_args, cl_rc, cl_stdout, cl_out, monitorVars, handlerVars,
                   generatorVars, wizardVars>>

\* finally: Path(temp_path).unlink(missing_ok=True)
ApplyFinally ==
    /\ cl_pc = "apply_finally"
    /\ cl_temp' = FALSE
    /\ cl_pc' = "done"
    /\ UNCHANGED <<cl_op, cl_args, cl_rc, cl_stdout, cl_out, monitorVars, handlerVars,
                   generatorVars, wizardVars>>

StartBuild ==
    /\ cl_pc = "idle"
    /\ \E n \in Names, rc \in {0, 1}, out \in SubmitOutputs :
         /\ cl_args' = Some([buildconfig_name |-> n])
         /\ cl_rc' = rc
         /\ cl_stdout' = Some(out)
         /\ cl_out' = Some(start_build(n, rc, out))
    /\ cl_op' = "start_build"
    /\ cl_pc' = "done"
    /\ UNCHANGED <<cl_temp, monitorVars, handlerVars, generatorVars, wizardVars>>

GetImageReference ==
    /\ cl_pc = "idle"
    /\ \E t \in Tags, rc \in {0, 1}, doc \in ImageStreams :
         /\ cl_args' = Some([tag |-> t])
         /\ cl_rc' = rc
         /\ cl_stdout' = Some(doc)
         /\ cl_out' = Some(get_image_reference(t, rc, doc))
    /\ cl_op' = "get_image_reference"
    /\ cl_pc' = "done"
    /\ UNCHANGED <<cl_temp, monitorVars, handlerVars, generatorVars, wizardVars>>

\* BuildMonitor.get_phase as a call of its own
ClientGetPhase ==
    /\ cl_pc = "idle"
    /\ \E rc \in {0, 1}, out \in ServicePhases \cup {""} :
         /\ cl_rc' = rc
         /\ cl_stdout' = Some(<<out>>)
         /\ cl_out' = Some(Returned(<<get_phase(rc, out)>>))
    /\ cl_args' = Some([build_name |-> <<"b1", "-1">>])
    /\ cl_op' = "get_phase"
    /\ cl_pc' = "done"
    /\ UNCHANGED <<cl_temp, monitorVars, handlerVars, generatorVars, wizardVars>>

\* BuildMonitor.get_logs as a call of its own
ClientGetLogs ==
    /\ cl_pc = "idle"
    /\ \E rc \in {0, 1}, out \in SnapshotTexts :
         /\ cl_rc' = rc
         /\ cl_stdout' = Some(out)
         /\ cl_out' = Some(Returned(get_logs(rc, out)))
    /\ cl_args' = Some([build_name |-> <<"b1", "-1">>])
    /\ cl_op' = "get_logs"
    /\ cl_pc' = "done"
    /\ UNCHANGED <<cl_temp, monitorVars, handlerVars, generatorVars, wizardVars>>

ClientNext ==
    \/ ApplyWriteTemp
    \/ ApplyRun
    \/ ApplyFinally
    \/ StartBuild
    \/ GetImageReference
    \/ ClientGetPhase
    \/ ClientGetLogs

\* one call of a client operation, with whatever the `oc` command does
ClientSpec == Init /\ [][ClientNext]_vars

\* ======================================================= BuildErrorHandler

RECURSIVE Phrase(_)
\* a string literal of the source, given by its words: single spaces between
Phrase(words) ==
    IF Len(words) <= 1 THEN words
    ELSE <<Head(words), WS>> \o Phrase(Tail(words))

\* mutant: a network failure is reported as not worth retrying
ErrorAnalysisNetworkNoRetry(error_type, message, recovery, can_retry) ==
    [error_type |-> error_type, message |-> message, recovery |-> recovery,
     can_retry |-> can_retry /\ error_type # "network"]

ErrorAnalysis(error_type, message, recovery, can_retry) ==
    [error_type |-> error_type, message |-> message, recovery |-> recovery,
     can_retry |-> can_retry]

\* BuildErrorHandler.ERROR_PATTERNS, in the order of the dict; a regular
\* expression is given by its literal phrases, `.*` standing between them
ERROR_PATTERNS ==
    << [error_type |-> "disk_space",
        patterns |-> << <<Phrase(<<"no", "space", "left">>)>>,
                        <<Phrase(<<"disk", "quota", "exceeded">>)>>,
                        <<Phrase(<<"insufficient", "space">>)>> >>],
       [error_type |-> "network",
        patterns |-> << <<Phrase(<<"connection", "refused">>)>>,
                        <<Phrase(<<"timeout">>)>>,
                        <<Phrase(<<"could", "not", "resolve">>)>>,
                        <<Phrase(<<"failed", "to", "fetch">>)>>,
                        <<Phrase(<<"network", "unreachable">>)>> >>],
       [error_type |-> "package_not_found",
        patterns |-> << <<Phrase(<<"could", "not", "find", "a", "version">>)>>,
                        <<Phrase(<<"no", "matching", "distribution">>)>>,
                        <<Phrase(<<"error:", "no", "such", "option">>)>>,
                        <<Phrase(<<"package">>), Phrase(<<"not", "found">>)>> >>],
       [error_type |-> "dependency_conflict",
        patterns |-> << <<Phrase(<<"incompatible">>)>>,
                        <<Phrase(<<"requires">>), Phrase(<<"but", "you", "have">>)>>,
                        <<Phrase(<<"conflict">>)>>,
                        <<Phrase(<<"cannot", "install">>)>> >>] >>

\* mutant: the network patterns are tried before the disk_space patterns
ErrorPatternsNetworkFirst ==
    <<ERROR_PATTERNS[2], ERROR_PATTERNS[1], ERROR_PATTERNS[3], ERROR_PATTERNS[4]>>

\* the phrase is in s at chunk i
PhraseAt(s, phrase_, i) ==
    i + Len(phrase_) - 1 <= Len(s) /\ SubSeq(s, i, i + Len(phrase_) - 1) = phrase_

\* `.` matches any character but a newline
NoNewline(s, from, to) == \A m \in from..to : s[m] # NL

RECURSIVE MatchesAt(_, _, _, _)
\* phrases k.. of the pattern match s with phrase k at chunk i
MatchesAt(pattern, k, s, i) ==
    /\ PhraseAt(s, pattern[k], i)
    /\ \/ k = Len(pattern)
       \/ \E j \in (i + Len(pattern[k]))..Len(s) :
            /\ NoNewline(s, i + Len(pattern[k]), j - 1)
            /\ MatchesAt(pattern, k + 1, s, j)

\* re.search(pattern, s) finds a match
ReSearch(pattern, s) == \E i \in 1..Len(s) : MatchesAt(pattern, 1, s, i)

RECURSIVE FirstCategory(_, _, _)
\* the nested loops of analyze_failure over the table, from entry k on: the
\* first error type one of whose patterns is found, or "" when none is
FirstCategory(table, logs_lower, k) ==
    IF k > Len(table) THEN ""
    ELSE IF \E n \in 1..Len(table[k].patterns) : ReSearch(table[k].patterns[n], logs_lower)
         THEN table[k].error_type
         ELSE FirstCategory(table, logs_lower, k + 1)

Quotes == {"'", "\""}

\* the end of the prefix (?:could not find|no matching) when it starts at i,
\* ignoring case; 0 when it does not start there
PrefixEnd(logs_, i) ==
    LET low == Lower(logs_)
    IN  IF PhraseAt(low, Phrase(<<"could", "not", "find">>), i) THEN i + 4
        ELSE IF PhraseAt(low, Phrase(<<"no", "matching">>), i) THEN i + 2
        ELSE 0

RECURSIVE SkipBlanks(_, _)
\* where the lazy `.*?` before the group stops: the first non-space chunk from
\* g on, 0 when a newline or the end of the text comes first
SkipBlanks(logs_, g) ==
    IF g > Len(logs_) \/ logs_[g] = NL THEN 0
    ELSE IF IsSpace(logs_[g]) THEN SkipBlanks(logs_, g + 1)
    ELSE g

\* group(1) of a match whose prefix starts at i, if there is one: the prefix,
\* lazily up to the first "package" or "version" of the line, lazily up to the
\* next non-space text, an optional opening quote, then greedy \S+
PackageMatchAt(logs_, i) ==
    LET e == PrefixEnd(logs_, i)
        low == Lower(logs_)
        words == IF e = 0 THEN {}
                 ELSE {j \in (e + 1)..Len(logs_) :
                          /\ low[j] \in {"package", "version"}
                          /\ NoNewline(logs_, e + 1, j - 1)}
    IN  IF words = {} THEN None
        ELSE LET g == SkipBlanks(logs_, SetMin(words) + 1)
             IN  IF g = 0 THEN None
                 ELSE IF logs_[g] \in Quotes /\ RunEnd(logs_, g) > g
                      THEN Some(SubSeq(logs_, g + 1, RunEnd(logs_, g)))
                      ELSE Some(SubSeq(logs_, g, RunEnd(logs_, g)))

RECURSIVE SearchPackage(_, _)
\* re.search of the package-name expression, from chunk i on: leftmost match
SearchPackage(logs_, i) ==
    IF i > Len(logs_) THEN None
    ELSE IF PackageMatchAt(logs_, i) # None THEN PackageMatchAt(logs_, i)
    ELSE SearchPackage(logs_, i + 1)

\* BuildErrorHandler._create_analysis
_create_analysis(error_type, logs_) ==
    CASE error_type = "disk_space" ->
           ErrorAnalysis("disk_space",
               Phrase(<<"Build", "failed", "due", "to", "insufficient", "disk", "space">>),
               Phrase(<<"Contact", "cluster", "administrator", "to", "increase", "build",
                        "storage", "quota">>),
               FALSE)
      [] error_type = "network" ->
           ErrorAnalysis("network",
               Phrase(<<"Build", "failed", "due", "to", "network", "issues", "(timeout",
                        "or", "connection", "failure)">>),
               Phrase(<<"Check", "network", "connectivity", "and", "try", "again">>),
               TRUE)
      [] error_type = "package_not_found" ->
           LET match == SearchPackage(logs_, 1)
               pkg_name == IF match # None THEN match[1]
                           ELSE Phrase(<<"unknown", "package">>)
           IN  ErrorAnalysis("package_not_found",
                   Phrase(<<"Package", "not", "found:">>) \o <<WS>> \o pkg_name,
                   Phrase(<<"Check", "package", "name", "spelling", "and", "version",
                            "requirements">>),
                   TRUE)
      [] error_type = "dependency_conflict" ->
           ErrorAnalysis("dependency_conflict",
               Phrase(<<"Dependency", "conflict", "between", "packages">>),
               Phrase(<<"Review", "package", "versions", "and", "resolve", "conflicts,",
                        "or", "use", "pre-built", "image">>),
               TRUE)
      [] OTHER ->
           ErrorAnalysis("unknown", Phrase(<<"Build", "failed">>),
               Phrase(<<"Review", "logs", "and", "try", "again">>), TRUE)

\* mutant: analyze_failure over the table with network first
AnalyzeFailureNetworkFirst(logs_, phase_) ==
    IF logs_ = <<>>
    THEN ErrorAnalysis("unknown",
             Phrase(<<"Build", "failed", "with", "phase:", phase_>>),
             Phrase(<<"Check", "cluster", "resources", "and", "try", "again">>), TRUE)
    ELSE LET error_type == FirstCategory(ErrorPatternsNetworkFirst, Lower(logs_), 1)
         IN  IF error_type # "" THEN _create_analysis(error_type, logs_)
             ELSE ErrorAnalysis("unknown",
                      Phrase(<<"Build", "failed", "for", "unknown", "reason">>),
                      Phrase(<<"Review", "build", "logs", "and", "try", "again", "or",
                               "use", "pre-built", "image">>),
                      TRUE)

\* BuildErrorHandler.analyze_failure
analyze_failure(logs_, phase_) ==
    IF logs_ = <<>>
    THEN ErrorAnalysis("unknown",
             Phrase(<<"Build", "failed", "with", "phase:", phase_>>),
             Phrase(<<"Check", "cluster", "resources", "and", "try", "again">>), TRUE)
    ELSE LET error_type == FirstCategory(ERROR_PATTERNS, Lower(logs_), 1)
         IN  IF error_type # "" THEN _create_analysis(error_type, logs_)
             ELSE ErrorAnalysis("unknown",
                      Phrase(<<"Build", "failed", "for", "unknown", "reason">>),
                      Phrase(<<"Review", "build", "logs", "and", "try", "again", "or",
                               "use", "pre-built", "image">>),
                      TRUE)

\* pip's report of a requirement it cannot satisfy
PipNoVersionLine ==
    Phrase(<<"ERROR:", "Could", "not", "find", "a", "version", "that", "satisfies",
             "the", "requirement", "foo-pkg">>)

\* pieces of build log text
LogSegments ==
    { <<NL>>,
      <<WS>>,
      <<"ok">>,
      Phrase(<<"No", "space", "left">>),
      <<"Timeout">>,
      PipNoVersionLine,
      Phrase(<<"ERROR:", "No", "matching", "distribution", "found", "for", "foo-pkg">>),
      Phrase(<<"Could", "not", "find", "a", "version">>),
      <<"'", "foo-pkg", "'">>,
      <<"incompatible">>,
      <<"package">>,
      Phrase(<<"not", "found">>) }

\* a build log is at most this many pieces long
MaxSegments == 3

RECURSIVE Concat(_)
Concat(parts) == IF parts = <<>> THEN <<>> ELSE Head(parts) \o Concat(Tail(parts))

\* the logs a failed BuildResult may carry ("" when it carries none)
FailureLogs ==
    {Concat(parts) : parts \in UNION {[1..n -> LogSegments] : n \in 0..MaxSegments}}

\* the phase of a failed BuildResult
FailurePhases == {"Failed", "Timeout"}

AnalyzerInit ==
    /\ eh_pc = "called"
    /\ eh_logs \in {Some(t) : t \in FailureLogs}
    /\ eh_phase \in FailurePhases
    /\ eh_error = None
    /\ eh_prompts = 0
    /\ eh_input = None
    /\ eh_action = NoneAtom
    /\ MonitorInit /\ ClientIdle /\ GeneratorIdle /\ WizardIdle

\* error = handler.analyze_failure(logs, phase)
AnalyzeFailure ==
    /\ eh_pc = "called"
    /\ eh_error' = Some(analyze_failure(eh_logs[1], eh_phase))
    /\ eh_pc' = "analyzed"
    /\ UNCHANGED <<eh_logs, eh_phase, eh_prompts, eh_input, eh_action, monitorVars,
                   clientVars, generatorVars, wizardVars>>

\* analyze_failure applied to a failed build's logs and phase
AnalyzerSpec == AnalyzerInit /\ [][AnalyzeFailure]_vars

\* ------------------------------------------- BuildErrorHandler.handle_failure

RecoveryActions == {"retry", "use_prebuilt", "exit"}

\* the lines an operator may type at the prompt (input() drops the newline)
TypedLines == { <<"1">>, <<WS, "1">>, <<"2">>, <<"2", WS>>, <<"3">>, <<"retry">>, <<>> }

\* handle_failure reads at most this many rejected choices
MaxPrompts == 3

\* what input() does: it returns a typed line (event "line"), or it raises
InputEvent(event, line) == [event |-> event, line |-> line]

\* mutant: retry is offered whatever can_retry says
ChoiceActionRetryAlways(can_retry, choice) ==
    IF choice = <<"1">> THEN "retry"
    ELSE IF choice = <<"2">> THEN "use_prebuilt"
    ELSE IF choice = <<"3">> THEN "exit"
    ELSE "again"

\* the body of the two `while True` loops for one choice: the action returned,
\* or "again" when the choice is rejected and the prompt is shown again
ChoiceAction(can_retry, choice) ==
    IF ~can_retry
    THEN IF choice = <<"1">> THEN "use_prebuilt"
         ELSE IF choice = <<"2">> THEN "exit"
         ELSE "again"
    ELSE IF choice = <<"1">> THEN "retry"
         ELSE IF choice = <<"2">> THEN "use_prebuilt"
         ELSE IF choice = <<"3">> THEN "exit"
         ELSE "again"

\* the analyses handle_failure may be given
ErrorSamples ==
    {analyze_failure(t, ph) : t \in LogSegments \cup {<<>>}, ph \in FailurePhases}

HandlerInit ==
    /\ eh_pc = "called"
    /\ eh_logs = None
    /\ eh_phase = NoneAtom
    /\ eh_error \in {Some(e) : e \in ErrorSamples}
    /\ eh_prompts = 0
    /\ eh_input = None
    /\ eh_action = NoneAtom
    /\ MonitorInit /\ ClientIdle /\ GeneratorIdle /\ WizardIdle

\* the report and the list of options are printed
ShowFailure ==
    /\ eh_pc = "called"
    /\ eh_pc' = "prompt"
    /\ UNCHANGED <<eh_logs, eh_phase, eh_error, eh_prompts, eh_input, eh_action,
                   monitorVars, clientVars, generatorVars, wizardVars>>

\* choice = input(...).strip() and the comparisons that follow
ReadChoice ==
    /\ eh_pc = "prompt"
    /\ \E line \in TypedLines :
         LET action == ChoiceAction(eh_error[1].can_retry, Strip(line))
         IN  /\ action = "again" => eh_prompts < MaxPrompts
             /\ eh_input' = Some(InputEvent("line", line))
             /\ IF action = "again"
                  THEN UNCHANGED <<eh_pc, eh_action>>
                  ELSE eh_pc' = "returned" /\ eh_action' = action
    /\ eh_prompts' = Min(eh_prompts + 1, MaxPrompts)
    /\ UNCHANGED <<eh_logs, eh_phase, eh_error, monitorVars, clientVars, generatorVars,
                   wizardVars>>

\* except KeyboardInterrupt: return "exit"
InterruptAtPrompt ==
    /\ eh_pc = "prompt"
    /\ eh_input' = Some(InputEvent("KeyboardInterrupt", <<>>))
    /\ eh_action' = "exit"
    /\ eh_pc' = "returned"
    /\ UNCHANGED <<eh_logs, eh_phase, eh_error, eh_prompts, monitorVars, clientVars,
                   generatorVars, wizardVars>>

\* input() finds standard input at end of file: it raises EOFError, which no
\* handler of handle_failure catches
EofAtPrompt ==
    /\ eh_pc = "prompt"
    /\ eh_input' = Some(InputEvent("EOFError", <<>>))
    /\ eh_pc' = "raised"
    /\ UNCHANGED <<eh_logs, eh_phase, eh_error, eh_prompts, eh_action, monitorVars,
                   clientVars, generatorVars, wizardVars>>

HandlerNext ==
    \/ ShowFailure
    \/ ReadChoice
    \/ InterruptAtPrompt
    \/ EofAtPrompt

\* handle_failure on an analysis, with whatever standard input delivers
HandlerSpec == HandlerInit /\ [][HandlerNext]_vars

\* ===================================== ImageBuilder.generate_buildconfig

\* "Install transformers and related libraries": the line that opens the
\* package section of the template
SectionStart == Phrase(<<"Install", "transformers", "and", "related", "libraries">>)

\* the texts that close the package section
SectionEnds ==
    { Phrase(<<"Install", "VideoLLaMA2">>),
      Phrase(<<"NumPy", "1.x", "Required">>),
      Phrase(<<"Install", "code-server">>) }

IsSectionEnd(line) == \E m \in SectionEnds : Contains(line, m)

BlockHeader == Phrase(<<"#", "Custom", "package", "installation", "(user-specified)">>)

\* "RUN pip install --no-cache-dir --constraint /tmp/constraints.txt"
PipInstall ==
    Phrase(<<"RUN", "pip", "install", "--no-cache-dir", "--constraint",
             "/tmp/constraints.txt">>)

\* mutant: every continuation line ends with the continuation character
InstallLinesBackslashOnLast(packages) ==
    IF Len(packages) <= 3
    THEN << PipInstall \o <<WS>> \o Phrase(packages) >>
    ELSE << PipInstall \o <<WS, "\\">> >>
         \o [i \in 1..Len(packages) |-> <<WS, WS, WS, WS, packages[i], WS, "\\">>]

\* the install directive for a package list: one line for up to three
\* packages, else a head line and one line per package
InstallLines(packages) ==
    IF Len(packages) <= 3
    THEN << PipInstall \o <<WS>> \o Phrase(packages) >>
    ELSE << PipInstall \o <<WS, "\\">> >>
         \o [i \in 1..Len(packages) |->
                IF i < Len(packages)
                THEN <<WS, WS, WS, WS, packages[i], WS, "\\">>
                ELSE <<WS, WS, WS, WS, packages[i]>>]

\* mutant: the package list is installed as well as the requirements file
PackageBlockBothSources(packages, requirements_file) ==
    <<BlockHeader, <<>>>>
    \o (IF requirements_file # None
        THEN << Phrase(<<"#", "Install", "packages", "from", "requirements.txt">>),
                Phrase(<<"RUN", "cat", ">", "/tmp/user-requirements.txt", "<<'EOF'">>),
                Strip(requirements_file[1]),
                <<"EOF">>,
                <<>>,
                PipInstall \o <<WS, "-r", WS, "/tmp/user-requirements.txt">> >>
        ELSE <<>>)
    \o (IF packages # <<>>
        THEN <<Phrase(<<"#", "Install", "user-specified", "packages">>)>>
             \o InstallLines(packages)
        ELSE <<>>)
    \o << <<>> >>

\* the lines appended when the section start is met; requirements_file is the
\* text of the file when one is given
PackageBlock(packages, requirements_file) ==
    <<BlockHeader, <<>>>>
    \o (IF requirements_file # None
        THEN << Phrase(<<"#", "Install", "packages", "from", "requirements.txt">>),
                Phrase(<<"RUN", "cat", ">", "/tmp/user-requirements.txt", "<<'EOF'">>),
                Strip(requirements_file[1]),
                <<"EOF">>,
                <<>>,
                PipInstall \o <<WS, "-r", WS, "/tmp/user-requirements.txt">> >>
        ELSE IF packages # <<>>
        THEN <<Phrase(<<"#", "Install", "user-specified", "packages">>)>>
             \o InstallLines(packages)
        ELSE <<>>)
    \o << <<>> >>

RECURSIVE InjectFrom(_, _, _, _, _)
\* the loop over the template's lines from line i on; skip_section as it is
\* when line i is reached
InjectFrom(lines, i, skip_section, packages, requirements_file) ==
    IF i > Len(lines) THEN <<>>
    ELSE IF Contains(lines[i], SectionStart)
         THEN PackageBlock(packages, requirements_file)
              \o InjectFrom(lines, i + 1, TRUE, packages, requirements_file)
         ELSE LET skip == skip_section /\ ~IsSectionEnd(lines[i])
              IN  IF skip
                  THEN InjectFrom(lines, i + 1, TRUE, packages, requirements_file)
                  ELSE <<lines[i]>>
                       \o InjectFrom(lines, i + 1, FALSE, packages, requirements_file)

\* mutant: skip_section starts True, the lines before the section are dropped
InjectCustomPackagesSkipsHead(dockerfile, packages, requirements_file) ==
    JoinLines(InjectFrom(SplitLines(dockerfile), 1, TRUE, packages, requirements_file))

\* ImageBuilder._inject_custom_packages
_inject_custom_packages(dockerfile, packages, requirements_file) ==
    JoinLines(InjectFrom(SplitLines(dockerfile), 1, FALSE, packages, requirements_file))

\* "FROM nvcr.io/nvidia/pytorch:", the fixed part of the regular expression
FromPrefix == <<"FROM", WS, "nvcr.io/nvidia/pytorch:">>

\* the regular expression FROM nvcr\.io/nvidia/pytorch:\S+ matches at index i
FromMatchesAt(s, i) ==
    /\ i + Len(FromPrefix) <= Len(s)
    /\ SubSeq(s, i, i + Len(FromPrefix) - 1) = FromPrefix
    /\ ~IsSpace(s[i + Len(FromPrefix)])

\* re.sub(r"FROM nvcr\.io/nvidia/pytorch:\S+", f"FROM {base_image}", dockerfile,
\* count=1): the leftmost match, if there is one, is replaced
ReplaceFrom(dockerfile, base_image) ==
    LET matches == {i \in 1..Len(dockerfile) : FromMatchesAt(dockerfile, i)}
    IN  IF matches = {} THEN dockerfile
        ELSE LET i == SetMin(matches)
                 e == RunEnd(dockerfile, i + Len(FromPrefix))
             IN  SubSeq(dockerfile, 1, i - 1) \o <<"FROM", WS>> \o base_image
                 \o SubSeq(dockerfile, e + 1, Len(dockerfile))

\* the Dockerfiles the template may hold: a package section closed by one of
\* the end texts or running to the end of the file, no section, the section
\* start twice, and a second build stage
Dockerfiles ==
    LET from == <<"FROM", WS, "nvcr.io/nvidia/pytorch:", "25.08-py3", WS, "AS", WS, "base">>
        runtime == <<"FROM", WS, "nvcr.io/nvidia/pytorch:", "25.08-py3">>
        start == <<"#", WS>> \o SectionStart
        old == Phrase(<<"RUN", "pip", "install", "transformers", "accelerate">>)
        end == Phrase(<<"#", "Install", "VideoLLaMA2">>)
        other_end == Phrase(<<"#", "Install", "code-server">>)
        later == Phrase(<<"RUN", "pip", "install", "videollama2">>)
    IN  { JoinLines(<<from, start, old, end, later>>),
          JoinLines(<<from, <<>>, start, old, <<>>, other_end, later, end, <<>>>>),
          JoinLines(<<start, old, later>>),
          JoinLines(<<from, old, end, later>>),
          JoinLines(<<from, start, old, end, later, start, old>>),
          JoinLines(<<from, start, old, end, runtime, later>>) }

\* base images: one of BASE_IMAGES, and one the operator typed
BaseImages == { <<"nvcr.io/nvidia/pytorch:", "25.09-py3">>, <<"registry/pytorch:25.09">> }

PackageNames == {"transformers", "datasets", "wandb", "peft", "einops"}

\* a package list has at most this many packages
MaxPackages == 4

\* the package lists: no package is named twice
PackageLists ==
    {ps \in UNION {[1..n -> PackageNames] : n \in 0..MaxPackages} :
        \A i, j \in 1..Len(ps) : i # j => ps[i] # ps[j]}

\* what the requirements file may hold: pinned packages, special characters,
\* blank lines at either end, an indented first line, nothing, and a line
\* that is the text EOF
RequirementsTexts ==
    { <<"transformers==4.37.0", NL, "datasets>=2.0.0", NL>>,
      <<"--extra-index-url", WS, "https://x/$USER", NL, "torch;python_version<'3.12'", NL>>,
      <<NL, "torch", NL>>,
      <<"torch", NL, NL>>,
      <<WS, WS, "torch", NL>>,
      <<>>,
      <<"torch", NL, "EOF", NL, "numpy", NL>> }

\* the package lists given together with a requirements file
ListsWithRequirements ==
    { <<>>, <<"wandb">>, <<"transformers", "datasets", "wandb", "peft">> }

\* generate_buildconfig is called with a template, a base image and any
\* combination of a package list and a requirements file
GeneratorInit ==
    /\ gen_pc = "called"
    /\ gen_args \in
         {Some([dockerfile |-> d, base_image |-> b, packages |-> ps,
                requirements_file |-> rf]) :
            d \in Dockerfiles, b \in BaseImages, ps \in PackageLists,
            rf \in {None} \cup {Some(t) : t \in RequirementsTexts}}
    /\ gen_args[1].requirements_file # None => gen_args[1].packages \in ListsWithRequirements
    /\ gen_out = None
    /\ MonitorInit /\ HandlerIdle /\ ClientIdle /\ WizardIdle

\* dockerfile = re.sub(...); `if packages or requirements_file`
ReplaceBaseImage ==
    /\ gen_pc = "called"
    /\ gen_out' = Some(ReplaceFrom(gen_args[1].dockerfile, gen_args[1].base_image))
    /\ gen_pc' = IF gen_args[1].packages # <<>> \/ gen_args[1].requirements_file # None
                 THEN "inject" ELSE "done"
    /\ UNCHANGED <<gen_args, monitorVars, handlerVars, clientVars, wizardVars>>

\* dockerfile = self._inject_custom_packages(dockerfile, packages, requirements_file)
InjectCustomPackages ==
    /\ gen_pc = "inject"
    /\ gen_out' = Some(_inject_custom_packages(gen_out[1], gen_args[1].packages,
                                               gen_args[1].requirements_file))
    /\ gen_pc' = "done"
    /\ UNCHANGED <<gen_args, monitorVars, handlerVars, clientVars, wizardVars>>

GeneratorNext == ReplaceBaseImage \/ InjectCustomPackages

\* generate_buildconfig from the template's Dockerfile on
GeneratorSpec == GeneratorInit /\ [][GeneratorNext]_vars

\* ============================= DeploymentWizard._build_custom_image

\* the stages of one build, in the order of the try block
Stages ==
    <<"generate_buildconfig", "apply_buildconfig", "start_build", "monitor_with_progress">>

\* _build_custom_image is entered at most this many times (once, then by retry)
MaxRuns == 3

\* the results monitor_with_progress may hand to the wizard
WizardResults ==
    { CompleteResult(Some(<<RegistryHost, "ns/img", DigestMark, "abc123">>), <<"ok">>),
      CompleteResult(None, <<"ok">>),
      TerminalResult("Failed", PipNoVersionLine),
      TerminalResult("Error", Phrase(<<"No", "space", "left">>)),
      TimeoutResult,
      CancelledResult }

\* the actions handle_failure can return for an analysis
HandleFailureOutcomes(error) ==
    ({ChoiceAction(error.can_retry, Strip(line)) : line \in TypedLines} \ {"again"})
        \cup {"exit"}

\* the calls of the current run: the log from the last entry of the function on
RunCalls ==
    LET entries == {k \in 1..Len(wz_calls) : wz_calls[k] = "_build_custom_image"}
    IN  SubSeq(wz_calls, SetMax(entries), Len(wz_calls))

\* the wizard has entered _build_custom_image for the first time
WizardInit ==
    /\ wz_pc = "configure"
    /\ wz_run = 1
    /\ wz_calls = <<"_build_custom_image">>
    /\ wz_result = None
    /\ wz_error = None
    /\ wz_action = NoneAtom
    /\ wz_raised = NoneAtom
    /\ MonitorInit /\ HandlerIdle /\ ClientIdle /\ GeneratorIdle

\* steps 1 to 3: the operator chooses the base image and the package source
\* and confirms the build, or declines (the pre-built image is selected), or
\* cancels the package entry (the function returns), or standard input ends
\* (EOFError: it leaves the function, and `except Exception` of the run that
\* retried, if there is one, selects the pre-built image)
WizardConfigure ==
    /\ wz_pc = "configure"
    /\ \E outcome \in {"confirmed", "declined", "cancelled", "eof"} :
         CASE outcome = "confirmed" ->
                wz_pc' = "generate" /\ UNCHANGED <<wz_calls, wz_raised>>
           [] outcome = "declined" ->
                /\ wz_pc' = "prebuilt"
                /\ wz_calls' = Append(wz_calls, "_select_prebuilt_image")
                /\ UNCHANGED wz_raised
           [] outcome = "cancelled" ->
                wz_pc' = "cancelled" /\ UNCHANGED <<wz_calls, wz_raised>>
           [] outcome = "eof" ->
                /\ wz_raised' = "input"
                /\ IF wz_run = 1
                     THEN wz_pc' = "raised" /\ UNCHANGED wz_calls
                     ELSE /\ wz_pc' = "prebuilt"
                          /\ wz_calls' = Append(wz_calls, "_select_prebuilt_image")
    /\ UNCHANGED <<wz_run, wz_result, wz_error, wz_action, monitorVars, handlerVars,
                   clientVars, generatorVars>>

\* buildconfig_yaml = builder.generate_buildconfig(...): it returns, or it
\* raises and control goes to `except Exception`
WizardGenerate ==
    /\ wz_pc = "generate"
    /\ wz_calls' = Append(wz_calls, "generate_buildconfig")
    /\ \/ wz_pc' = "apply" /\ UNCHANGED wz_raised
       \/ wz_pc' = "except" /\ wz_raised' = "generate_buildconfig"
    /\ UNCHANGED <<wz_run, wz_result, wz_error, wz_action, monitorVars, handlerVars,
                   clientVars, generatorVars>>

\* mutant: an error of apply_buildconfig is ignored and the build is started
WizardApplyErrorIgnored ==
    /\ wz_pc = "apply"
    /\ wz_calls' = Append(wz_calls, "apply_buildconfig")
    /\ \/ wz_pc' = "start" /\ UNCHANGED wz_raised
       \/ wz_pc' = "start" /\ wz_raised' = "apply_buildconfig"
    /\ UNCHANGED <<wz_run, wz_result, wz_error, wz_action, monitorVars, handlerVars,
                   clientVars, generatorVars>>

\* builder.apply_buildconfig(buildconfig_yaml)
WizardApply ==
    /\ wz_pc = "apply"
    /\ wz_calls' = Append(wz_calls, "apply_buildconfig")
    /\ \/ wz_pc' = "start" /\ UNCHANGED wz_raised
       \/ wz_pc' = "except" /\ wz_raised' = "apply_buildconfig"
    /\ UNCHANGED <<wz_run, wz_result, wz_error, wz_action, monitorVars, handlerVars,
                   clientVars, generatorVars>>

\* build_instance = builder.start_build(build_name)
WizardStart ==
    /\ wz_pc = "start"
    /\ wz_calls' = Append(wz_calls, "start_build")
    /\ \/ wz_pc' = "monitor" /\ UNCHANGED wz_raised
       \/ wz_pc' = "except" /\ wz_raised' = "start_build"
    /\ UNCHANGED <<wz_run, wz_result, wz_error, wz_action, monitorVars, handlerVars,
                   clientVars, generatorVars>>

\* result = monitor.monitor_with_progress(); if result.success
WizardMonitor ==
    /\ wz_pc = "monitor"
    /\ wz_calls' = Append(wz_calls, "monitor_with_progress")
    /\ \/ \E r \in WizardResults :
            /\ wz_result' = Some(r)
            /\ wz_pc' = IF r.success THEN "image_url" ELSE "analyze"
            /\ UNCHANGED wz_raised
       \/ /\ wz_pc' = "except"
          /\ wz_raised' = "monitor_with_progress"
          /\ UNCHANGED wz_result
    /\ UNCHANGED <<wz_run, wz_error, wz_action, monitorVars, handlerVars, clientVars,
                   generatorVars>>

\* image_url = result.image_ref or builder.get_image_reference(...); the
\* image is recorded in the configuration
WizardImageUrl ==
    /\ wz_pc = "image_url"
    /\ IF wz_result[1].image_ref # None
         THEN wz_pc' = "configured" /\ UNCHANGED <<wz_calls, wz_raised>>
         ELSE /\ wz_calls' = Append(wz_calls, "get_image_reference")
              /\ \/ wz_pc' = "configured" /\ UNCHANGED wz_raised
                 \/ wz_pc' = "except" /\ wz_raised' = "get_image_reference"
    /\ UNCHANGED <<wz_run, wz_result, wz_error, wz_action, monitorVars, handlerVars,
                   clientVars, generatorVars>>

\* error = handler.analyze_failure(result.logs or "", result.phase or "Failed")
WizardAnalyze ==
    /\ wz_pc = "analyze"
    /\ wz_calls' = Append(wz_calls, "analyze_failure")
    /\ LET r == wz_result[1]
           logs_or_empty == IF r.logs = None THEN <<>> ELSE r.logs[1]
           phase_or_failed == IF r.phase = "" THEN "Failed" ELSE r.phase
       IN  wz_error' = Some(analyze_failure(logs_or_empty, phase_or_failed))
    /\ wz_pc' = "handle"
    /\ UNCHANGED <<wz_run, wz_result, wz_action, wz_raised, monitorVars, handlerVars,
                   clientVars, generatorVars>>

\* action = handler.handle_failure(build_instance, error): it returns an
\* action, or input() raises EOFError
WizardHandle ==
    /\ wz_pc = "handle"
    /\ wz_calls' = Append(wz_calls, "handle_failure")
    /\ \/ \E a \in HandleFailureOutcomes(wz_error[1]) :
            /\ a = "retry" => wz_run < MaxRuns
            /\ wz_action' = a
            /\ wz_pc' = "dispatch"
            /\ UNCHANGED wz_raised
       \/ /\ wz_pc' = "except"
          /\ wz_raised' = "handle_failure"
          /\ UNCHANGED wz_action
    /\ UNCHANGED <<wz_run, wz_result, wz_error, monitorVars, handlerVars, clientVars,
                   generatorVars>>

\* mutant: "exit" is treated like "use_prebuilt"
WizardDispatchNeverExits ==
    /\ wz_pc = "dispatch"
    /\ IF wz_action = "retry"
         THEN /\ wz_calls' = wz_calls \o <<"retry", "_build_custom_image">>
              /\ wz_run' = wz_run + 1
              /\ wz_pc' = "configure"
              /\ wz_result' = None
              /\ wz_error' = None
              /\ wz_action' = NoneAtom
         ELSE /\ wz_calls' = wz_calls \o <<wz_action, "_select_prebuilt_image">>
              /\ wz_pc' = "prebuilt"
              /\ UNCHANGED <<wz_run, wz_result, wz_error, wz_action>>
    /\ UNCHANGED <<wz_raised, monitorVars, handlerVars, clientVars, generatorVars>>

\* if action == "retry": return self._build_custom_image()
\* elif action == "use_prebuilt": return self._select_prebuilt_image()
\* else: sys.exit(1)
WizardDispatch ==
    /\ wz_pc = "dispatch"
    /\ CASE wz_action = "retry" ->
              /\ wz_calls' = wz_calls \o <<"retry", "_build_custom_image">>
              /\ wz_run' = wz_run + 1
              /\ wz_pc' = "configure"
              /\ wz_result' = None
              /\ wz_error' = None
              /\ wz_action' = NoneAtom
         [] wz_action = "use_prebuilt" ->
              /\ wz_calls' = wz_calls \o <<"use_prebuilt", "_select_prebuilt_image">>
              /\ wz_pc' = "prebuilt"
              /\ UNCHANGED <<wz_run, wz_result, wz_error, wz_action>>
         [] OTHER ->
              /\ wz_calls' = wz_calls \o <<"exit", "sys.exit">>
              /\ wz_pc' = "exited"
              /\ UNCHANGED <<wz_run, wz_result, wz_error, wz_action>>
    /\ UNCHANGED <<wz_raised, monitorVars, handlerVars, clientVars, generatorVars>>

\* except Exception as e: ...; return self._select_prebuilt_image()
WizardExcept ==
    /\ wz_pc = "except"
    /\ wz_calls' = Append(wz_calls, "_select_prebuilt_image")
    /\ wz_pc' = "prebuilt"
    /\ UNCHANGED <<wz_run, wz_result, wz_error, wz_action, wz_raised, monitorVars,
                   handlerVars, clientVars, generatorVars>>

WizardNext ==
    \/ WizardConfigure
    \/ WizardGenerate
    \/ WizardApply
    \/ WizardStart
    \/ WizardMonitor
    \/ WizardImageUrl
    \/ WizardAnalyze
    \/ WizardHandle
    \/ WizardDispatch
    \/ WizardExcept

\* _build_custom_image with an operator at the prompts
WizardSpec == WizardInit /\ [][WizardNext]_vars

\* ================================================================== claims

\* C1: in every session, on each exit path (terminal phase, timeout,
\* operator interrupt), log_proc.terminate() has been called exactly once
\* by the time monitor_with_progress returns, wherever the interrupt arrives.
C1_TerminateExactlyOnce == pc = "returned" => termCalls = 1

\* C2: no exit of monitor_with_progress, by return or by an exception, leaves
\* the log-tail process without a terminate call.
C2_TerminatedOnEveryExit == pc \in Exits => termCalls >= 1

\* C3: a BuildResult exists only once the log-tail process has exited.
C3_ResultOnlyAfterProcessExit == result # None => procState = "exited"

\* C4: the call always comes to an end: every log read attempt completes
\* without waiting for data, so the timeout check is reached and the call
\* returns (with Timeout when no terminal phase is reported).
C4_CallEventuallyEnds == <>(pc \in Exits)

InTrace(call) == \E i \in 1..Len(trace) : trace[i] = call

IsPrefix(a, b) == Len(a) <= Len(b) /\ SubSeq(b, 1, Len(a)) = a

NonBlank(str) == \E i \in 1..Len(str) : ~IsSpace(str[i])

\* the calls of a terminal-phase iteration, in order
TerminalCalls == <<"get_phase", "terminate", "get_logs">>

\* C5: a timeout check that finds elapsed > timeout (no terminal phase seen)
\* leads, with no further phase query, to one terminate call and the result
\* success=False, phase="Timeout" with a non-empty error; and a Timeout
\* result is returned only then.
C5_TimeoutYieldsTimeoutResult ==
    /\ elapsed > TimeoutSecs =>
         /\ pc \in {"timeout_terminate", "timeout_return", "handler", "handler_return",
                    "returned"}
         /\ phase \notin TerminalPhases
         /\ ~InTrace("get_phase")
         /\ pc = "timeout_return" => trace = <<"terminate">>
         /\ (pc = "returned" /\ ~interrupted) =>
              /\ result # None
              /\ result[1].success = FALSE
              /\ result[1].phase = "Timeout"
              /\ result[1].error # None
              /\ NonBlank(result[1].error[1])
              /\ trace = <<"terminate">>
              /\ termCalls = 1
    /\ (result # None /\ result[1].phase = "Timeout") => elapsed > TimeoutSecs

C5_Witness ==
    /\ pc = "returned"
    /\ result # None
    /\ result[1].phase = "Timeout"
    /\ phase = "Running"
    /\ elapsed > TimeoutSecs

\* C6: the call returns only by a timeout, by an operator interrupt, or with
\* the terminal phase that get_phase returned in that same iteration (the
\* phase the service reports); a log read never ends the call.
C6_TerminationDecidedFromPhase ==
    /\ pc = "returned" =>
         /\ result # None
         /\ \/ result[1].phase = "Timeout" /\ elapsed > TimeoutSecs /\ ~interrupted
            \/ result[1].phase = "Cancelled" /\ result[1].logs = None /\ interrupted
            \/ /\ result[1].phase \in TerminalPhases
               /\ result[1].logs # None
               /\ result[1].phase = phase
               /\ svcPhase = phase
               /\ result[1].success = (phase = "Complete")
               /\ trace = TerminalCalls
    /\ pc = "raised" => trace # <<>> /\ trace[Len(trace)] \in {"get_phase", "get_logs"}

C6_Witness ==
    /\ pc = "returned"
    /\ result # None
    /\ result[1].phase = "Failed"
    /\ procState = "exited"
    /\ last_log_line # None
    /\ Contains(last_log_line[1], <<"Push", WS, "successful">>)

\* C7: a KeyboardInterrupt raised at any statement of the monitoring loop is
\* not propagated: terminate is called and the call returns success=False,
\* phase="Cancelled" with logs None, whatever had been read.
C7_InterruptBecomesCancelled ==
    interrupted =>
        /\ pc \in {"handler", "handler_return", "returned"}
        /\ pc \in {"handler_return", "returned"} =>
             termCalls >= 1 /\ trace[Len(trace)] = "terminate"
        /\ pc = "returned" =>
             /\ result # None
             /\ result[1].success = FALSE
             /\ result[1].phase = "Cancelled"
             /\ result[1].logs = None

C7_Witness ==
    /\ pc = "returned"
    /\ interruptedAt = "sleep"
    /\ last_log_line # None
    /\ result # None
    /\ result[1].logs = None

\* C8: a terminal phase is followed, in the same iteration, by terminate,
\* then one get_logs, then the result built from that snapshot, with no
\* other phase query or log read; get_logs is called nowhere else.
C8_TerminalBranchOrder ==
    /\ getLogsCalls <= 1
    /\ phase \in TerminalPhases =>
         IsPrefix(IF interrupted /\ pc \in {"handler_return", "returned"}
                  THEN SubSeq(trace, 1, Len(trace) - 1) ELSE trace,
                  TerminalCalls)
    /\ getLogsCalls = 1 => phase \in TerminalPhases /\ IsPrefix(TerminalCalls, trace)
    /\ (result # None /\ result[1].logs # None) =>
         trace = TerminalCalls /\ getLogsCalls = 1 /\ result[1].logs = logs
    /\ (result # None /\ result[1].phase = "Timeout") => getLogsCalls = 0
    /\ (interrupted /\ interruptedAt # "build_result") => getLogsCalls = 0

C8_Witness ==
    /\ pc = "returned"
    /\ trace = TerminalCalls
    /\ getLogsCalls = 1
    /\ termCalls = 1
    /\ result # None
    /\ result[1].logs = logs
    /\ Len(logs[1]) > 0

\* the maximal run of non-space chunks of text that starts at k
WordAt(text, k) ==
    LET e == CHOOSE e \in (k - 1)..Len(text) :
                 /\ \A j \in k..e : ~IsSpace(text[j])
                 /\ e = Len(text) \/ IsSpace(text[e + 1])
    IN  SubSeq(text, k, e)

\* a push-confirmation line: "Successfully pushed " followed by a word
\* <registry host><path>@sha256:<digest>
PushConfirmationAt(text, i) ==
    /\ i + 4 <= Len(text)
    /\ SubSeq(text, i, i + 3) = <<"Successfully", WS, "pushed", WS>>
    /\ LET w == WordAt(text, i + 4)
       IN  /\ w[1] = RegistryHost
           /\ \E m \in 3..(Len(w) - 1) : w[m] = DigestMark

\* C9: when Complete is observed the call returns success=True and
\* phase="Complete" whether or not a reference is found; image_ref is the
\* reference (with its sha256 digest) of a push-confirmation line of the
\* snapshot logs when there is one and None otherwise (empty logs included).
C9_CompleteIsSuccess ==
    (pc = "returned" /\ phase = "Complete" /\ ~interrupted) =>
        /\ result # None
        /\ result[1].success = TRUE
        /\ result[1].phase = "Complete"
        /\ result[1].logs = logs
        /\ result[1].error = None
        /\ LET text == logs[1]
               at == {i \in 1..Len(text) : PushConfirmationAt(text, i)}
           IN  IF at = {} THEN result[1].image_ref = None
               ELSE /\ result[1].image_ref # None
                    /\ \E i \in at : result[1].image_ref[1] = WordAt(text, i + 4)
                    /\ \E m \in 2..(Len(result[1].image_ref[1]) - 1) :
                           result[1].image_ref[1][m] = DigestMark

C9_Witness ==
    /\ pc = "returned"
    /\ last_phase = "Complete"
    /\ result # None
    /\ result[1].success = TRUE
    /\ result[1].image_ref = None
    /\ result[1].logs = Some(<<>>)

\* C10: every result with success=False carries a non-empty error: for a
\* terminal phase Failed, Error or Cancelled the result has that phase and
\* an error that is never empty or blank, for any snapshot text; so do the
\* Timeout and operator-cancel results.
C10_FailureCarriesError ==
    (pc = "returned" /\ result # None /\ result[1].success = FALSE) =>
        /\ result[1].error # None
        /\ NonBlank(result[1].error[1])
        /\ result[1].logs # None =>
             result[1].phase = phase /\ phase \in {"Failed", "Error", "Cancelled"}

C10_Witness ==
    /\ pc = "returned"
    /\ result # None
    /\ result[1].phase = "Error"
    /\ result[1].logs = Some(<<WS, NL, WS>>)
    /\ result[1].error # None
    /\ NonBlank(result[1].error[1])

\* the client call has ended
ClientDone(op) == cl_pc = "done" /\ cl_op = op

\* C11: every client call whose `oc` command exits non-zero ends by raising
\* the transport error (CalledProcessError); in particular a non-zero exit
\* of the phase query or of the log fetch is not turned into a phase value
\* or into empty logs.
C11_NonZeroExitIsTransportError ==
    cl_pc = "done" /\ cl_rc # 0 => cl_out = Some(Raised("CalledProcessError"))

\* the output holds prefix followed by at least one non-space chunk, at k
PatternAt(s, prefix, k) == k < Len(s) /\ s[k] = prefix /\ ~IsSpace(s[k + 1])

HasPattern(s, prefix) == \E k \in 1..Len(s) : PatternAt(s, prefix, k)

\* the non-space chunks that follow the first occurrence of the pattern
CapturedName(s, prefix) ==
    LET k == SetMin({i \in 1..Len(s) : PatternAt(s, prefix, i)})
        e == SetMax({j \in (k + 1)..Len(s) : \A m \in (k + 1)..j : ~IsSpace(s[m])})
    IN  SubSeq(s, k + 1, e)

\* C18: when the command exits 0, apply_buildconfig returns the name captured
\* from its output when the pattern is there and otherwise the metadata name
\* the definition carries; start_build returns the captured instance name
\* and otherwise "<definition name>-1".  Neither raises for a missing pattern.
C18_NameFromOutputOrDefinition ==
    cl_pc = "done" /\ cl_rc = 0 =>
        /\ cl_op = "apply_buildconfig" =>
             IF HasPattern(cl_stdout[1], BuildConfigPrefix)
             THEN cl_out = Some(Returned(CapturedName(cl_stdout[1], BuildConfigPrefix)))
             ELSE cl_args[1].name # None => cl_out = Some(Returned(cl_args[1].name[1]))
        /\ cl_op = "start_build" =>
             IF HasPattern(cl_stdout[1], BuildPrefix)
             THEN cl_out = Some(Returned(CapturedName(cl_stdout[1], BuildPrefix)))
             ELSE cl_out = Some(Returned(cl_args[1].buildconfig_name \o <<"-1">>))

\* apply_buildconfig fell back to the definition's name
C18_Witness ==
    /\ ClientDone("apply_buildconfig")
    /\ cl_rc = 0
    /\ cl_stdout = Some(<<"created", NL>>)
    /\ cl_args = Some([name |-> Some(<<"ml-dev-custom">>)])
    /\ cl_out = Some(Returned(<<"ml-dev-custom">>))

\* the entries of the image stream for the requested tag
EntriesFor(tags, tag) == {i \in 1..Len(tags) : tags[i].tag = tag}

\* C19 (as claimed): get_image_reference returns a reference whenever
\* status.tags has an entry for the tag, and raises ValueError exactly when
\* no entry for the tag exists.
C19_EntryForTagYieldsReference ==
    ClientDone("get_image_reference") /\ cl_rc = 0 =>
        LET entries == EntriesFor(cl_stdout[1], cl_args[1].tag)
        IN  IF entries # {}
            THEN cl_out[1].kind = "returned"
            ELSE cl_out = Some(Raised("ValueError"))

\* C19 (amended): get_image_reference returns the first item of the first
\* entry for the tag that has items, and raises ValueError exactly when no
\* entry for the tag has an item; a non-zero exit raises CalledProcessError.
C19_FirstItemOfFirstNonEmptyEntry ==
    ClientDone("get_image_reference") =>
        LET tags == cl_stdout[1]
            filled == {i \in EntriesFor(tags, cl_args[1].tag) : Len(tags[i].items) > 0}
        IN  IF cl_rc # 0 THEN cl_out = Some(Raised("CalledProcessError"))
            ELSE IF filled = {} THEN cl_out = Some(Raised("ValueError"))
            ELSE \A i \in filled :
                    (\A j \in filled : i <= j) =>
                        cl_out = Some(Returned(<<Head(tags[i].items)>>))

\* an entry for the tag without items is passed over for a later one
C19_Witness ==
    /\ ClientDone("get_image_reference")
    /\ cl_rc = 0
    /\ cl_args = Some([tag |-> "t1"])
    /\ cl_stdout = Some(<<[tag |-> "t1", items |-> <<>>],
                          [tag |-> "t1", items |-> <<"reg/ns/img@sha256:bbb",
                                                     "reg/ns/img@sha256:aaa">>]>>)
    /\ cl_out = Some(Returned(<<"reg/ns/img@sha256:bbb">>))

\* one of the patterns of the category is found in the text
CategoryFound(category, text) ==
    \E k \in 1..Len(ERROR_PATTERNS) :
        /\ ERROR_PATTERNS[k].error_type = category
        /\ \E n \in 1..Len(ERROR_PATTERNS[k].patterns) :
             ReSearch(ERROR_PATTERNS[k].patterns[n], text)

\* C12: analyze_failure classifies by fixed priority over the whole text,
\* ignoring case: disk_space, then network, then package_not_found, then
\* dependency_conflict, and unknown when the logs are empty or nothing
\* matches; logs containing "no space left" yield disk_space, can_retry False.
C12_FirstCategoryByPriority ==
    eh_pc = "analyzed" =>
        LET text == Lower(eh_logs[1])
            error == eh_error[1]
        IN  /\ error.error_type =
                 IF CategoryFound("disk_space", text) THEN "disk_space"
                 ELSE IF CategoryFound("network", text) THEN "network"
                 ELSE IF CategoryFound("package_not_found", text) THEN "package_not_found"
                 ELSE IF CategoryFound("dependency_conflict", text)
                      THEN "dependency_conflict"
                 ELSE "unknown"
            /\ Contains(text, <<"no", WS, "space", WS, "left">>) =>
                 error.error_type = "disk_space" /\ ~error.can_retry

\* a network pattern comes first in the text, a disk pattern in capitals later
C12_Witness ==
    /\ eh_pc = "analyzed"
    /\ eh_logs = Some(<<"Timeout", NL, "No", WS, "space", WS, "left">>)
    /\ eh_error[1].error_type = "disk_space"
    /\ ~eh_error[1].can_retry

\* C13: for logs with pip's line "ERROR: Could not find a version that
\* satisfies the requirement foo-pkg" (and no disk or network pattern),
\* analyze_failure returns package_not_found with can_retry True, and the
\* hint in the message is foo-pkg or "unknown package", no other word.
C13_HintIsPackageOrFallback ==
    /\ eh_pc = "analyzed"
    /\ Contains(eh_logs[1], PipNoVersionLine)
    /\ ~CategoryFound("disk_space", Lower(eh_logs[1]))
    /\ ~CategoryFound("network", Lower(eh_logs[1]))
    => /\ eh_error[1].error_type = "package_not_found"
       /\ eh_error[1].can_retry
       /\ eh_error[1].message \in
            { <<"Package", WS, "not", WS, "found:", WS, "foo-pkg">>,
              <<"Package", WS, "not", WS, "found:", WS, "unknown", WS, "package">> }

\* C14: handle_failure never returns "retry" for an analysis with can_retry
\* False (there "1" gives use_prebuilt and "2" gives exit); with can_retry
\* True the choices "1", "2", "3" give retry, use_prebuilt, exit; any other
\* choice shows the prompt again; an interrupt at the prompt returns "exit".
C14_ChoiceDecidesAction ==
    /\ eh_pc = "returned" =>
         /\ eh_action \in RecoveryActions
         /\ ~eh_error[1].can_retry => eh_action # "retry"
         /\ eh_input[1].event = "KeyboardInterrupt" => eh_action = "exit"
         /\ eh_input[1].event = "line" =>
              LET choice == Strip(eh_input[1].line)
              IN  IF eh_error[1].can_retry
                  THEN \/ choice = <<"1">> /\ eh_action = "retry"
                       \/ choice = <<"2">> /\ eh_action = "use_prebuilt"
                       \/ choice = <<"3">> /\ eh_action = "exit"
                  ELSE \/ choice = <<"1">> /\ eh_action = "use_prebuilt"
                       \/ choice = <<"2">> /\ eh_action = "exit"
    /\ eh_pc = "prompt" /\ eh_input # None =>
         /\ eh_input[1].event = "line"
         /\ Strip(eh_input[1].line) \notin
              (IF eh_error[1].can_retry THEN {<<"1">>, <<"2">>, <<"3">>}
               ELSE {<<"1">>, <<"2">>})
         /\ eh_action = NoneAtom

\* a non-retryable failure: "3" was rejected, then "1" chose the pre-built image
C14_Witness ==
    /\ eh_pc = "returned"
    /\ eh_error[1].error_type = "disk_space"
    /\ eh_prompts = 2
    /\ eh_input = Some([event |-> "line", line |-> <<WS, "1">>])
    /\ eh_action = "use_prebuilt"

\* C15: handle_failure ends every call by returning one of its actions,
\* whatever standard input delivers: with no valid choice to read (a
\* non-interactive context) it falls back to a default action.
C15_AlwaysReturnsAnAction ==
    eh_pc \in {"returned", "raised"} =>
        eh_pc = "returned" /\ eh_action \in RecoveryActions

\* the lines of the template's Dockerfile
TemplateLines == SplitLines(gen_args[1].dockerfile)

\* the template lines that hold the section start
StartLines ==
    LET t == TemplateLines
    IN  {i \in 1..Len(t) : Contains(t[i], SectionStart)}

\* the first line after the section start that holds an end text; one past
\* the last line when there is none
SectionEnd ==
    LET t == TemplateLines
        s == SetMin(StartLines)
        ends == {j \in (s + 1)..Len(t) : IsSectionEnd(t[j])}
    IN  IF ends = {} THEN Len(t) + 1 ELSE SetMin(ends)

\* the lines put in place of the package section of a template with one
\* section start: the output without the template lines kept before and after
RenderedBlock ==
    LET out == SplitLines(gen_out[1])
    IN  SubSeq(out, SetMin(StartLines), Len(out) - (Len(TemplateLines) - SectionEnd + 1))

\* C20: for a non-empty package list (and a template with one package
\* section) the rendered block holds exactly one install directive; up to
\* three packages are all on its one line; more are on continuation lines,
\* one package per line in input order, with the continuation character on
\* every line of the directive but the last.
C20_OneInstallDirective ==
    /\ gen_pc = "done" /\ Cardinality(StartLines) = 1
    /\ gen_args[1].packages # <<>> /\ gen_args[1].requirements_file = None
    =>
        LET packages == gen_args[1].packages
            n == Len(packages)
            block == RenderedBlock
            directives == {i \in 1..Len(block) :
                             IsPrefix(<<"RUN", WS, "pip", WS, "install">>, block[i])}
        IN  /\ Cardinality(directives) = 1
            /\ \A d \in directives :
                 LET head == <<"RUN", WS, "pip", WS, "install", WS, "--no-cache-dir", WS,
                               "--constraint", WS, "/tmp/constraints.txt", WS>>
                 IN  IF n <= 3
                     THEN /\ Len(block) = d + 1
                          /\ Len(block[d]) = Len(head) + 2 * n - 1
                          /\ IsPrefix(head, block[d])
                          /\ \A k \in 1..n : block[d][Len(head) + 2 * k - 1] = packages[k]
                          /\ \A k \in 1..(n - 1) : block[d][Len(head) + 2 * k] = WS
                          /\ block[d + 1] = <<>>
                     ELSE /\ Len(block) = d + n + 1
                          /\ block[d] = head \o <<"\\">>
                          /\ \A k \in 1..n :
                               block[d + k] =
                                 IF k < n THEN <<WS, WS, WS, WS, packages[k], WS, "\\">>
                                 ELSE <<WS, WS, WS, WS, packages[k]>>
                          /\ block[d + n + 1] = <<>>

\* four packages: a head line and four continuation lines
C20_Witness ==
    /\ gen_pc = "done"
    /\ gen_args[1].requirements_file = None
    /\ gen_args[1].packages = <<"transformers", "datasets", "wandb", "peft">>
    /\ Contains(gen_out[1],
                <<"/tmp/constraints.txt", WS, "\\", NL,
                  WS, WS, WS, WS, "transformers", WS, "\\", NL,
                  WS, WS, WS, WS, "datasets", WS, "\\", NL,
                  WS, WS, WS, WS, "wandb", WS, "\\", NL,
                  WS, WS, WS, WS, "peft", NL, NL>>)

\* the entries of a call log that are among the given names, in order
Only(calls, names) == SelectSeq(calls, LAMBDA c : c \in names)

StageNames == {Stages[k] : k \in 1..Len(Stages)}

\* what follows handle_failure in a run when the action is `action`
AfterFailure(action, ending) ==
    Stages \o <<"analyze_failure", "handle_failure", action>> \o ending

\* the failed result of the run is analysed once, then handled once, and is
\* not raised; use_prebuilt ends the run at the pre-built selection with no
\* further call, and exit ends it at sys.exit
FailureIsRoutedOnce ==
    /\ wz_result # None /\ ~wz_result[1].success =>
         /\ wz_pc # "raised"
         /\ wz_raised \in {NoneAtom, "handle_failure"}
         /\ wz_pc # "analyze" =>
              IsPrefix(<<"analyze_failure">>,
                       Only(RunCalls, {"analyze_failure", "handle_failure"}))
         /\ wz_pc \notin {"analyze", "handle"} =>
              Only(RunCalls, {"analyze_failure", "handle_failure"}) =
                  <<"analyze_failure", "handle_failure">>
    /\ wz_action = "use_prebuilt" /\ wz_pc # "dispatch" =>
         /\ wz_pc = "prebuilt"
         /\ Tail(RunCalls) = AfterFailure("use_prebuilt", <<"_select_prebuilt_image">>)
    /\ wz_action = "exit" /\ wz_pc # "dispatch" =>
         /\ wz_pc = "exited"
         /\ Tail(RunCalls) = AfterFailure("exit", <<"sys.exit">>)
    /\ wz_pc \in {"prebuilt", "exited"} /\ wz_raised = NoneAtom /\ wz_result # None =>
         wz_action \in {"use_prebuilt", "exit"}

\* the runs that a retry started and that have left the prompts
RetriedRuns ==
    {k \in 1..Len(wz_calls) :
        /\ wz_calls[k] = "retry"
        /\ k + 2 <= Len(wz_calls) \/ wz_pc # "configure"}

\* C16 (as claimed): every failed monitoring result is passed once to
\* analyze_failure and then to handle_failure and is not raised;
\* use_prebuilt submits no further build, exit ends the process, and retry
\* starts a new run from generation: a new definition is generated.
C16_RetryStartsFromGeneration ==
    /\ FailureIsRoutedOnce
    /\ \A k \in RetriedRuns :
         /\ k + 2 <= Len(wz_calls)
         /\ wz_calls[k + 1] = "_build_custom_image"
         /\ wz_calls[k + 2] = "generate_buildconfig"

\* C16 (amended): as claimed, except that retry re-enters
\* _build_custom_image at its first prompt: the next call of the pipeline, if
\* the operator confirms the build again, is generate_buildconfig, and
\* otherwise no stage is called in the new run.
C16_RetryReentersAtThePrompts ==
    /\ FailureIsRoutedOnce
    /\ \A k \in 1..Len(wz_calls) :
         wz_calls[k] = "retry" =>
            /\ k > 1 /\ wz_calls[k - 1] = "handle_failure"
            /\ k + 1 <= Len(wz_calls) /\ wz_calls[k + 1] = "_build_custom_image"
            /\ k + 2 <= Len(wz_calls) =>
                 wz_calls[k + 2] \in {"generate_buildconfig", "_select_prebuilt_image"}
    /\ \A k \in 2..Len(wz_calls) :
         wz_calls[k] = "_build_custom_image" => wz_calls[k - 1] = "retry"
    /\ wz_run = Len(Only(wz_calls, {"_build_custom_image"}))

\* a failed build was retried, and the second run is being monitored
C16_Witness ==
    /\ wz_run = 2
    /\ wz_pc = "analyze"
    /\ wz_calls = <<"_build_custom_image">> \o Stages
                  \o <<"analyze_failure", "handle_failure", "retry", "_build_custom_image">>
                  \o Stages

\* C17: in every run the stages are called in the order generate, apply,
\* start, monitor, each at most once, and when generate_buildconfig,
\* apply_buildconfig or start_build raises, no later stage is called in that
\* run (start_build is not called after a failed apply, and no monitoring
\* starts): control leaves the try block at once.
C17_NoStageAfterAnError ==
    LET called == Only(RunCalls, StageNames)
    IN  /\ IsPrefix(called, Stages)
        /\ wz_raised \in StageNames =>
             /\ called # <<>> /\ called[Len(called)] = wz_raised
             /\ wz_pc \in {"except", "prebuilt"}
             /\ wz_result = None
             /\ Only(RunCalls, {"analyze_failure", "handle_failure", "get_image_reference"})
                  = <<>>

\* apply_buildconfig raised: generate and apply were called, nothing after
C17_Witness ==
    /\ wz_raised = "apply_buildconfig"
    /\ wz_pc = "prebuilt"
    /\ RunCalls = <<"_build_custom_image", "generate_buildconfig", "apply_buildconfig",
                    "_select_prebuilt_image">>

\* ------------------------------------------------ generate_buildconfig

\* generate_buildconfig was given a package list or a requirements file
HasPackageSource ==
    gen_args[1].packages # <<>> \/ gen_args[1].requirements_file # None

\* the lines of a file: the text split at its line ends (str.splitlines)
FileLines(text) ==
    LET ls == SplitLines(text)
    IN  IF ls[Len(ls)] = <<>> THEN SubSeq(ls, 1, Len(ls) - 1) ELSE ls

\* C21: for every content of the requirements file, the lines of the rendered
\* script between the opening line of the delimited block and the first line
\* that is the closing delimiter EOF are exactly the lines of the file.
C21_RequirementsEmbeddedVerbatim ==
    /\ gen_pc = "done" /\ Cardinality(StartLines) = 1
    /\ gen_args[1].requirements_file # None
    =>
        LET out == SplitLines(gen_out[1])
            opens == {i \in 1..Len(out) :
                         out[i] = <<"RUN", WS, "cat", WS, ">", WS,
                                    "/tmp/user-requirements.txt", WS, "<<'EOF'">>}
        IN  /\ Cardinality(opens) = 1
            /\ \A o \in opens :
                 LET closes == {c \in (o + 1)..Len(out) : out[c] = <<"EOF">>}
                 IN  /\ closes # {}
                     /\ SubSeq(out, o + 1, SetMin(closes) - 1)
                          = FileLines(gen_args[1].requirements_file[1])

\* C23: when a package source is given and the template does not hold the
\* section start exactly once, or holds no end text after it, generation
\* raises: no build script is returned.
C23_BadMarkersRaise ==
    /\ gen_pc = "done" /\ HasPackageSource
    /\ Cardinality(StartLines) = 1 => SectionEnd > Len(TemplateLines)
    =>  gen_out = None

\* the template's lines with the selected base image in place of the
\* template's in the first line that opens with FROM nvcr.io/nvidia/pytorch:
TemplateWithBaseImage ==
    LET t == TemplateLines
        froms == {k \in 1..Len(t) :
                     IsPrefix(<<"FROM", WS, "nvcr.io/nvidia/pytorch:">>, t[k])}
        first == IF froms = {} THEN 0 ELSE SetMin(froms)
    IN  [k \in 1..Len(t) |->
            IF k = first
            THEN <<"FROM", WS>> \o gen_args[1].base_image \o SubSeq(t[k], 5, Len(t[k]))
            ELSE t[k]]

\* the output is the lines of `expected` before the package section, then a
\* new region, then the lines of `expected` from the section's end text on;
\* the new region holds no line of the template's package section and the
\* placeholder text is nowhere in the output; the packages of a package list
\* are in the new region
RegionReplacedIn(expected) ==
    LET out == SplitLines(gen_out[1])
        t == TemplateLines
        s == SetMin(StartLines)
        e == SectionEnd
        head == SubSeq(expected, 1, s - 1)
        tail == SubSeq(expected, e, Len(expected))
        region == {t[r] : r \in s..(e - 1)} \ {<<>>}
        packages == gen_args[1].packages
        block == SubSeq(out, Len(head) + 1, Len(out) - Len(tail))
    IN  /\ Len(out) > Len(head) + Len(tail)
        /\ SubSeq(out, 1, Len(head)) = head
        /\ SubSeq(out, Len(out) - Len(tail) + 1, Len(out)) = tail
        /\ \A k \in 1..Len(block) : block[k] \notin region
        /\ \A k \in 1..Len(out) :
             ~Contains(out[k], <<"transformers", WS, "and", WS, "related", WS, "libraries">>)
        /\ gen_args[1].requirements_file = None =>
             \A n \in 1..Len(packages) :
                \E k \in 1..Len(block) : \E c \in 1..Len(block[k]) : block[k][c] = packages[n]

\* C22 (as claimed): for a template with one package section and any package
\* source, the output is the template with only the package section
\* replaced: the template lines before the section and from its end text on
\* are in the output unchanged and in order, no line of the section remains,
\* and the requested packages are in the new region.
C22_OnlyThePackageRegionReplaced ==
    gen_pc = "done" /\ HasPackageSource /\ Cardinality(StartLines) = 1 =>
        RegionReplacedIn(TemplateLines)

\* C22 (amended): as claimed, except that the first FROM line of the NVIDIA
\* PyTorch image names the selected base image; every other template line
\* outside the package section is unchanged.
C22_RegionAndBaseImageReplaced ==
    gen_pc = "done" /\ HasPackageSource /\ Cardinality(StartLines) = 1 =>
        RegionReplacedIn(TemplateWithBaseImage)

\* two packages in a template with blank lines and a second end text
C22_Witness ==
    /\ gen_pc = "done"
    /\ gen_args[1].packages = <<"transformers", "datasets">>
    /\ gen_args[1].requirements_file = None
    /\ gen_out[1] =
         JoinLines(<< <<"FROM", WS, "registry/pytorch:25.09", WS, "AS", WS, "base">>,
                      <<>>,
                      Phrase(<<"#", "Custom", "package", "installation", "(user-specified)">>),
                      <<>>,
                      Phrase(<<"#", "Install", "user-specified", "packages">>),
                      Phrase(<<"RUN", "pip", "install", "--no-cache-dir", "--constraint",
                               "/tmp/constraints.txt", "transformers", "datasets">>),
                      <<>>,
                      Phrase(<<"#", "Install", "code-server">>),
                      Phrase(<<"RUN", "pip", "install", "videollama2">>),
                      Phrase(<<"#", "Install", "VideoLLaMA2">>),
                      <<>> >>)

\* C30: given both a package list and a requirements file, the rendered
\* block installs from the requirements file only: its one install directive
\* is the `-r` one and it has no package-list part; given neither, the
\* output is the template with only the first base-image FROM line replaced.
C30_AtMostOnePackageSource ==
    gen_pc = "done" =>
        /\ /\ gen_args[1].packages # <<>> /\ gen_args[1].requirements_file # None
           /\ Cardinality(StartLines) = 1
           =>
             LET block == RenderedBlock
                 directives == {i \in 1..Len(block) :
                                  IsPrefix(<<"RUN", WS, "pip", WS, "install">>, block[i])}
             IN  /\ Cardinality(directives) = 1
                 /\ \A d \in directives :
                      block[d] = <<"RUN", WS, "pip", WS, "install", WS, "--no-cache-dir", WS,
                                   "--constraint", WS, "/tmp/constraints.txt", WS, "-r", WS,
                                   "/tmp/user-requirements.txt">>
                 /\ \A k \in 1..Len(block) :
                      block[k] # <<"#", WS, "Install", WS, "user-specified", WS, "packages">>
        /\ ~HasPackageSource => gen_out[1] = JoinLines(TemplateWithBaseImage)

\* a package list and a requirements file were both given
C30_Witness ==
    /\ gen_pc = "done"
    /\ gen_args[1].packages = <<"transformers", "datasets", "wandb", "peft">>
    /\ gen_args[1].requirements_file = Some(<<"transformers==4.37.0", NL, "datasets>=2.0.0", NL>>)
    /\ Contains(gen_out[1], <<"-r", WS, "/tmp/user-requirements.txt", NL, NL>>)
    /\ ~Contains(gen_out[1], <<"peft">>)

\* ------------------------------------------------------ apply_buildconfig

\* C29: once apply_buildconfig has written its temporary file and has left
\* the try block, by returning the name (captured from the output or read
\* from the definition) or by raising (the command exited non-zero, or the
\* definition carries no name), the temporary file no longer exists; until
\* then it does.
C29_TempFileRemoved ==
    cl_op = "apply_buildconfig" =>
        /\ cl_pc = "done" =>
             /\ ~cl_temp
             /\ cl_out[1].kind \in {"returned", "raised"}
             /\ cl_rc # 0 => cl_out = Some(Raised("CalledProcessError"))
        /\ cl_pc \in {"apply_run", "apply_finally"} => cl_temp

\* the fallback found no name in the definition: KeyError, and the file is gone
C29_Witness ==
    /\ ClientDone("apply_buildconfig")
    /\ cl_rc = 0
    /\ cl_args = Some([name |-> None])
    /\ cl_out = Some(Raised("KeyError"))
    /\ ~cl_temp

\* ------------------------------------- monitor_with_progress: the result

\* C24: when the build reached a terminal phase before the timeout had
\* elapsed since the start of monitoring, and the operator did not
\* interrupt, the result returned is the one for that phase, never Timeout,
\* whatever the polling iterations take.
C24_TerminalBeforeTimeoutIsReported ==
    result # None /\ svcTerminalInTime /\ ~interrupted =>
        /\ result[1].phase # "Timeout"
        /\ result[1].phase = svcPhase

\* the line contains the words, whatever their case
SaysIgnoringCase(line, words) == Contains(Lower(line), Phrase(words))

\* C25: the error of a failed terminal result is the last line of the
\* snapshot logs with an error marker ("ERROR:" or "error:" in any case);
\* without such a line, the last line with one of the failure phrases;
\* without either, the generic message.  A line with a marker wins over a
\* later line with a failure phrase.
C25_ErrorLineByPriority ==
    /\ pc = "returned"
    /\ result[1].phase \in {"Failed", "Error", "Cancelled"} /\ result[1].logs # None
    =>
        LET lines == SplitLines(result[1].logs[1])
            markers == {i \in 1..Len(lines) :
                           \E c \in 1..Len(lines[i]) :
                              lines[i][c] \in {"ERROR:", "Error:", "error:"}}
            phrases == {i \in 1..Len(lines) :
                           \/ SaysIgnoringCase(lines[i], <<"could", "not", "find">>)
                           \/ SaysIgnoringCase(lines[i], <<"no", "matching", "distribution">>)
                           \/ SaysIgnoringCase(lines[i], <<"failed", "to">>)
                           \/ SaysIgnoringCase(lines[i], <<"connection", "refused">>)
                           \/ SaysIgnoringCase(lines[i], <<"timeout">>)}
        IN  result[1].error =
              IF markers # {} THEN Some(Strip(lines[SetMax(markers)]))
              ELSE IF phrases # {} THEN Some(Strip(lines[SetMax(phrases)]))
              ELSE Some(<<"Build", WS, "failed", WS, "(see", WS, "logs", WS, "for", WS,
                          "details)">>)

\* two lines with markers, then a line with a failure phrase: the later marker
C25_Witness ==
    /\ pc = "returned"
    /\ result[1].logs = Some(<<WS, "ERROR:", WS, "boom", WS, NL, "Error:", WS, "oops", NL,
                               "Connection", WS, "refused">>)
    /\ result[1].phase = "Failed"
    /\ result[1].error = Some(<<"Error:", WS, "oops">>)

\* C27: a result exists exactly when the call has returned; its phase is one
\* of Complete, Failed, Error, Cancelled, Timeout, never a non-terminal
\* phase or "Unknown"; success is true exactly when the phase is Complete;
\* and the result of a session, once produced, is never replaced.
C27_OneWellFormedResult ==
    /\ [](/\ result # None <=> pc = "returned"
          /\ result # None =>
               /\ result[1].phase \in {"Complete", "Failed", "Error", "Cancelled", "Timeout"}
               /\ result[1].success <=> result[1].phase = "Complete")
    /\ [][result # None => result' = result]_vars

\* the call timed out while the build was still running
C27_Witness ==
    /\ pc = "returned"
    /\ result[1].phase = "Timeout"
    /\ ~result[1].success
    /\ svcPhase = "Running"
    /\ phase = "Running"

\* C28: a phase of "Unknown" never takes the loop into the terminal branch:
\* the loop goes on to the log read and the sleep; a result other than
\* Timeout or Cancelled is returned only after a query that returned the
\* build's terminal phase, and it carries that phase; and the query that
\* follows one that came back as "Unknown" enters the terminal branch when
\* it returns a terminal phase.
C28_UnknownIsNotTerminal ==
    /\ [](/\ phase = "Unknown" =>
               /\ pc \notin {"terminal_terminate", "get_logs", "build_result"}
               /\ result # None => result[1].phase \in {"Timeout", "Cancelled"}
          /\ result # None /\ result[1].phase \notin {"Timeout", "Cancelled"} =>
               /\ phase \in {"Complete", "Failed", "Error", "Cancelled"}
               /\ result[1].phase = phase
               /\ phase = svcPhase)
    /\ [][/\ pc = "get_phase" /\ phase = "Unknown"
          /\ phase' \in {"Complete", "Failed", "Error", "Cancelled"}
          => pc' = "terminal_terminate" /\ phase' = svcPhase]_vars

\* the last query came back as "Unknown" although the build has failed, the
\* loop went on, and the next query is about to be made
C28_Witness ==
    /\ pc = "get_phase"
    /\ phase = "Unknown"
    /\ svcPhase = "Failed"
    /\ result = None
    /\ trace = <<>>

\* ------------------------------------------- analyze_failure: the advice

\* the recovery suggestions of the categories a pattern selects
RecoveryOfMatched(category) ==
    CASE category = "disk_space" ->
           Phrase(<<"Contact", "cluster", "administrator", "to", "increase", "build",
                    "storage", "quota">>)
      [] category = "network" ->
           Phrase(<<"Check", "network", "connectivity", "and", "try", "again">>)
      [] category = "package_not_found" ->
           Phrase(<<"Check", "package", "name", "spelling", "and", "version",
                    "requirements">>)
      [] category = "dependency_conflict" ->
           Phrase(<<"Review", "package", "versions", "and", "resolve", "conflicts,",
                    "or", "use", "pre-built", "image">>)

\* the category is one of the five, and can_retry is false exactly for disk_space
RetryByCategory ==
    /\ eh_error[1].error_type \in
         {"disk_space", "network", "package_not_found", "dependency_conflict", "unknown"}
    /\ eh_error[1].can_retry <=> eh_error[1].error_type # "disk_space"
    /\ eh_error[1].recovery # <<>>

\* C26 (as claimed): can_retry is false exactly for disk_space, and each
\* category, unknown included, has one non-empty recovery suggestion,
\* whatever the log text.
C26_OneRecoveryPerCategory ==
    eh_pc = "analyzed" =>
        /\ RetryByCategory
        /\ eh_error[1].recovery =
             IF eh_error[1].error_type = "unknown"
             THEN Phrase(<<"Review", "build", "logs", "and", "try", "again", "or", "use",
                           "pre-built", "image">>)
             ELSE RecoveryOfMatched(eh_error[1].error_type)

\* C26 (amended): as claimed, except that unknown has two suggestions: one
\* when the logs are empty and one when no pattern matches logs that are not.
C26_RecoveryPerCategoryAndEmptiness ==
    eh_pc = "analyzed" =>
        /\ RetryByCategory
        /\ eh_error[1].recovery =
             IF eh_error[1].error_type # "unknown"
             THEN RecoveryOfMatched(eh_error[1].error_type)
             ELSE IF eh_logs[1] = <<>>
             THEN Phrase(<<"Check", "cluster", "resources", "and", "try", "again">>)
             ELSE Phrase(<<"Review", "build", "logs", "and", "try", "again", "or", "use",
                           "pre-built", "image">>)

\* a result without logs: unknown, retryable, with the suggestion for empty logs
C26_Witness ==
    /\ eh_pc = "analyzed"
    /\ eh_logs = Some(<<>>)
    /\ eh_error[1].error_type = "unknown"
    /\ eh_error[1].can_retry
    /\ eh_error[1].recovery = <<"Check", WS, "cluster", WS, "resources", WS, "and", WS,
                                "try", WS, "again">>

====
